---- MODULE Spec2Model ----
(***************************************************************************)
(* Device-credential management (iskidms): the credential store (users,    *)
(* sessions, devices, meta), the cookie-backed session manager and the     *)
(* role-gated server actions.                                              *)
(*                                                                         *)
(* The store is modelled at the level of its SQL statements (lib/db.ts,    *)
(* libsql variant), the session manager from lib/auth.ts and the actions   *)
(* from src/lib/actions.ts.  Every server action is one atomic step: the   *)
(* session lookup, the validation, the store statements it issues and the  *)
(* result it returns.                                                      *)
(*                                                                         *)
(* Ids (nanoid) are modelled as fresh counters: an id is never reused.     *)
(* Time is counted in units of 30 days, so the 30-day session lifetime is  *)
(* 1 unit.                                                                 *)
(***************************************************************************)
EXTENDS Integers, Sequences, FiniteSets, TLC

\* ---------------------------------------------------------------- bounds
MaxUsers    == 3    \* user rows ever created (the seeded admin included)
MaxSessions == 2    \* session rows ever created
MaxDevices  == 2    \* device rows ever created
MaxTime     == 1    \* last instant of the clock
MaxCalls    == 2    \* calls in flight at the same time

\* ------------------------------------------------------ program constants
SessionTTL   == 1   \* 30 days, in units of 30 days
MaxCsvUser   == 50
MaxCsvPass   == 100
MinUsername  == 3
MinPassword  == 6

NULL     == 0       \* SQL NULL in devices.agentId; also "no row" for an id
NoCookie == 0       \* the session_id cookie is absent


\* ----------------------------------------------------------------- inputs
\* Form fields a caller can submit.  "" is a missing/empty field.
Usernames  == {"", "ab", "admin", "agent1", "agent2"}
AgentNames == {"", "agent1"}           \* the agentName form field
Passwords    == {"", "short", "password123", "secret1"}
Mismatch     == "mismatch"    \* a confirmPassword that differs
Suffixes  == {"x7Qp"}          \* nanoid(4)
DevicePws == {"Zk3f9A"}        \* nanoid(6)

\* ---------------------------------------------------------- result strings
Success              == "success"
ErrUnauthorized      == "Yetkisiz"
ErrAdminRequired     == "Yetkisiz - yonetici erisimi gerekiyor"
ErrInvalidLogin      == "Invalid username or password"
ErrLoginFailed       == "An error occurred during login"
ErrLoginUserRequired == "Kullanici adi gereklidir"
ErrLoginPassRequired == "Sifre gereklidir"
ErrSelfDelete        == "Kendi hesabinizi silemezsiniz"
ErrAgentNotFound     == "Firma bulunamadi"
ErrDeviceNotFound    == "Cihaz bulunamadi"
ErrNewAgentNotFound  == "Yeni firma bulunamadi"
ErrTargetNotAgent    == "Hedef kullanici bir firma olmalidir"
ErrUserNotAgent      == "Kullanici bir firma olmalidir"
ErrTransferRequired  == "Cihaz ID ve yeni firma gereklidir"
ErrDeviceIdRequired  == "Cihaz ID gereklidir"
ErrAgentIdRequired   == "Agent ID is required"
ErrAgentFormRequired == "Firma ID ve adi gereklidir"
ErrPasswordTooShort  == "New password must be at least 6 characters"
ErrPasswordMismatch  == "Sifreler eslesmiyor"
ErrUsernameTooShort  == "Kullanici adi en az 3 karakter olmalidir"
ErrRegPassTooShort   == "Sifre en az 6 karakter olmalidir"
ErrCompanyRequired   == "Firma adi gereklidir"
ErrEmailInvalid      == "Invalid email address"
ErrPhoneRequired     == "Telefon numarasi gereklidir"
ErrIssuerRequired    == "Yetkili kisi gereklidir"
ErrCurrentRequired   == "Mevcut sifre gereklidir"
ErrNewTooShort       == "Yeni sifre en az 6 karakter olmalidir"
ErrNewMismatch       == "Yeni sifreler eslesmiyor"
ErrSessionRequired   == "Yetkisiz - lutfen tekrar giris yapiniz"
ErrUserNotFound      == "Kullanici bulunamadi"
ErrCurrentWrong      == "Mevcut sifre yanlis"
ErrUsernameTaken     == "Kullanici adi zaten mevcut"
ErrRegisterFailed    == "Kayit sirasinda bir hata olustu"
ErrCreateAgentFailed == "Firma olusturulurken bir hata olustu"

VARIABLES
  users,      \* users table:    id -> [username, passwordHash, role]
  sessions,   \* sessions table: id -> [userId, expiresAt]
  devices,    \* devices table:  id -> [agentId, username, password, status]
  meta,       \* meta table: the set of keys present
  cookie,     \* the session_id cookie of the requesting browser, or NoCookie
  now,        \* Date.now()
  nextUid,    \* next fresh user id
  nextSid,    \* next fresh session id
  nextDid,    \* next fresh device id
  last,       \* the last operation: its name, its result and a case label
  inflight,   \* calls suspended between two awaits: call number -> what they hold
  foreignKeys, \* whether the store enforces the FOREIGN KEY clauses of the schema
  granted     \* history: session id -> the passwordHash loginAction verified for it

vars == <<users, sessions, devices, meta, cookie, now, nextUid, nextSid, nextDid, last, inflight, foreignKeys, granted>>

\* ------------------------------------------------------- password hashing
\* bcrypt: the hash is another string than the plaintext (it carries the
\* algorithm and cost prefix), and compare() succeeds exactly for the
\* plaintext it was made from.
Hash(pw) == "$2b$12$" \o pw

\* compare() answering true for every plaintext
verifyPasswordAlways(hashedPassword, plainPassword) == TRUE

verifyPassword(hashedPassword, plainPassword) == hashedPassword = Hash(plainPassword)

\* --------------------------------------------------------- table helpers
Put(f, k, v) == [x \in DOMAIN f \cup {k} |-> IF x = k THEN v ELSE f[x]]

Drop(f, ks) == [x \in DOMAIN f \ ks |-> f[x]]

\* SELECT * FROM users WHERE username = ?
findByUsername(username) == {u \in DOMAIN users : users[u].username = username}

\* ------------------------------------------------------- session manager
NoSession == [id |-> NULL, userId |-> NULL, username |-> "", role |-> "", expiresAt |-> 0]

\* the lookup with "expiresAt >= now": a session is still returned at the
\* instant it expires
sessionFindByIdInclusive(sessionId) ==
  IF /\ sessionId \in DOMAIN sessions
     /\ sessions[sessionId].userId \in DOMAIN users
     /\ sessions[sessionId].expiresAt >= now
  THEN [id        |-> sessionId,
        userId    |-> sessions[sessionId].userId,
        username  |-> users[sessions[sessionId].userId].username,
        role      |-> users[sessions[sessionId].userId].role,
        expiresAt |-> sessions[sessionId].expiresAt]
  ELSE NoSession

\* SELECT s.*, u.username, u.role FROM sessions s JOIN users u ON s.userId = u.id
\*   WHERE s.id = ? AND s.expiresAt > now
sessionFindById(sessionId) ==
  IF /\ sessionId \in DOMAIN sessions
     /\ sessions[sessionId].userId \in DOMAIN users
     /\ sessions[sessionId].expiresAt > now
  THEN [id        |-> sessionId,
        userId    |-> sessions[sessionId].userId,
        username  |-> users[sessions[sessionId].userId].username,
        role      |-> users[sessions[sessionId].userId].role,
        expiresAt |-> sessions[sessionId].expiresAt]
  ELSE NoSession

\* auth.getSession: the session the request's cookie resolves to
getSession ==
  IF cookie = NoCookie THEN NoSession ELSE sessionFindById(cookie)

\* auth.getSession deletes the cookie when the lookup finds nothing
cookieAfterGetSession ==
  IF cookie # NoCookie /\ sessionFindById(cookie) = NoSession THEN NoCookie ELSE cookie

\* the role comparison dropped: any authenticated caller passes
IsAdminAnyRole == getSession # NoSession

IsAdmin == getSession # NoSession /\ getSession.role = "admin"

IsAgent == getSession # NoSession /\ getSession.role = "agent"

\* case label of a request the gate rejects
GateNote ==
  IF cookie = NoCookie THEN "anonymous"
  ELSE IF cookie \notin DOMAIN sessions THEN "unknown-token"
  ELSE IF getSession = NoSession THEN "expired"
  ELSE "wrong-role"

\* what an action returns besides its message: nothing, the created device,
\* or the report of an import
NoOut == [kind |-> "none"]

ResultOut(op, res, note, out) == [op |-> op, res |-> res, note |-> note, out |-> out]

Result(op, res, note) == ResultOut(op, res, note, NoOut)

\* ------------------------------------------------------------------ Init
Init ==
  /\ users = <<>>
  /\ sessions = <<>>
  /\ devices = <<>>
  /\ meta = {}
  /\ cookie = NoCookie
  /\ now = 0
  /\ nextUid = 1
  /\ nextSid = 1
  /\ nextDid = 1
  /\ last = Result("none", "", "")
  /\ inflight = <<>>
  /\ foreignKeys = TRUE
  /\ granted = <<>>

Initialized == "initialized" \in meta

\* -------------------------------------------------------------- database
\* SELECT COUNT(*) as count FROM users; count === 0
usersCountIsZero == DOMAIN users = {}

ErrSqlSyntax == "SQLITE_ERROR: near \"company_name\": syntax error"

\* The first statement of initializeDatabase, CREATE TABLE IF NOT EXISTS
\* users (...), has no comma between the createdAt column and company_name.
\* The SQL parser rejects the text whether or not the table exists, so the
\* awaited execute throws.
createUsersTableThrows == TRUE

\* initializeDatabase: the schema statements, then the seed of the admin when
\* there is no marker and no user.  A throw of the first statement ends the
\* run before any other statement: the rejection is logged by the caller
\* (initializeDatabase().catch(console.error)).
initializeDatabase ==
  /\ IF createUsersTableThrows
     THEN /\ last' = Result("initializeDatabase", ErrSqlSyntax, "rejected")
          /\ UNCHANGED <<users, nextUid, meta>>
     ELSE /\ IF "initialized" \notin meta
             THEN /\ IF usersCountIsZero
                     THEN /\ users' = Put(users, nextUid,
                                   [username |-> "admin", passwordHash |-> Hash("password123"),
                                    role |-> "admin"])
                          /\ nextUid' = nextUid + 1
                     ELSE UNCHANGED <<users, nextUid>>
                  /\ meta' = meta \cup {"initialized"}
             ELSE UNCHANGED <<users, nextUid, meta>>
          /\ last' = Result("initializeDatabase", Success, "")
  /\ UNCHANGED <<sessions, devices, cookie, now, nextSid, nextDid>>

\* the clock advances
Tick ==
  /\ now < MaxTime
  /\ now' = now + 1
  /\ last' = Result("tick", "", "")
  /\ UNCHANGED <<users, sessions, devices, meta, cookie, nextUid, nextSid, nextDid>>

\* The next request comes from a browser holding token t (a kept or copied
\* cookie value issued earlier), or no cookie at all: the cookie is under
\* the client's control.
PresentToken(t) ==
  /\ t < nextSid
  /\ cookie # t
  /\ cookie' = t
  /\ last' = Result("presentToken", "", "")
  /\ UNCHANGED <<users, sessions, devices, meta, now, nextUid, nextSid, nextDid>>

\* the sweep reaching one session lifetime ahead of the clock
expiredRowsAhead == {s \in DOMAIN sessions : sessions[s].expiresAt <= now + SessionTTL}

\* the rows of "WHERE expiresAt <= ?" with Date.now()
expiredRows == {s \in DOMAIN sessions : sessions[s].expiresAt <= now}

\* setInterval sweep: DELETE FROM sessions WHERE expiresAt <= now
deleteExpired ==
  /\ Initialized
  /\ sessions' = Drop(sessions, expiredRows)
  /\ last' = Result("deleteExpired", "", "")
  /\ UNCHANGED <<users, devices, meta, cookie, now, nextUid, nextSid, nextDid>>

\* ------------------------------------------------------- authentication
\* sessionOperations.create: INSERT INTO sessions (id, userId, expiresAt)
sessionCreate(userId) ==
  Put(sessions, nextSid, [userId |-> userId, expiresAt |-> now + SessionTTL])

\* redirect(path) does not return: it throws the framework's NEXT_REDIRECT
\* signal.  loginAction calls it inside its try block, so the throw is taken
\* by the catch, which logs it and returns the generic login error.
redirectInTry(path) == ErrLoginFailed

loginAction(username, password) ==
  /\ Initialized
  /\ IF username = "" \/ password = ""
     THEN /\ last' = Result("login",
                       IF username = "" THEN ErrLoginUserRequired ELSE ErrLoginPassRequired,
                       "invalid-form")
          /\ UNCHANGED <<sessions, cookie, nextSid>>
     ELSE IF findByUsername(username) = {}
     THEN /\ last' = Result("login", ErrInvalidLogin, "no-such-user")
          /\ UNCHANGED <<sessions, cookie, nextSid>>
     ELSE LET u == CHOOSE x \in findByUsername(username) : TRUE IN
          IF ~verifyPassword(users[u].passwordHash, password)
          THEN /\ last' = Result("login", ErrInvalidLogin, "wrong-password")
               /\ UNCHANGED <<sessions, cookie, nextSid>>
          ELSE /\ nextSid <= MaxSessions
               /\ sessions' = sessionCreate(u)
               /\ cookie' = nextSid
               /\ nextSid' = nextSid + 1
               /\ last' = Result("login",
                            redirectInTry(IF users[u].role = "admin" THEN "/admin" ELSE "/agent"),
                            "signed-in")
  /\ UNCHANGED <<users, devices, meta, now, nextUid, nextDid>>

\* the DELETE keyed by the session's user: every session of that user goes
sessionDeleteOfUser(sessionId) ==
  IF sessionId \notin DOMAIN sessions THEN sessions
  ELSE Drop(sessions, {s \in DOMAIN sessions : sessions[s].userId = sessions[sessionId].userId})

\* sessionOperations.delete: DELETE FROM sessions WHERE id = ?
sessionDelete(sessionId) == Drop(sessions, {sessionId})

\* auth.destroySession, then redirect("/login")
logoutAction ==
  /\ Initialized
  /\ IF cookie # NoCookie
     THEN /\ sessions' = sessionDelete(cookie)
          /\ cookie' = NoCookie
     ELSE UNCHANGED <<sessions, cookie>>
  /\ last' = Result("logout", "redirect:/login", "")
  /\ UNCHANGED <<users, devices, meta, now, nextUid, nextSid, nextDid>>

\* ------------------------------------------------ registration and agents
ValidEmails == {"ops@acme.co"}

FullProfile == [company_name |-> "Acme", email |-> "ops@acme.co", phone |-> "555", issuer_person |-> "Ann"]

NoProfile == [company_name |-> "", email |-> "", phone |-> "", issuer_person |-> ""]

\* the registration forms submitted: well-formed ones for a short, a taken and
\* a free username, and one for each other way the schema can refuse a form
RegisterForms ==
  { [username |-> u, password |-> "secret1", confirmPassword |-> "secret1", profile |-> FullProfile] :
      u \in {"ab", "admin", "agent1"} }
  \cup
  { [username |-> "agent2", password |-> "short",   confirmPassword |-> "short",   profile |-> FullProfile],
    [username |-> "agent2", password |-> "secret1", confirmPassword |-> Mismatch,  profile |-> FullProfile],
    [username |-> "agent2", password |-> "secret1", confirmPassword |-> "secret1", profile |-> NoProfile] }

\* the new-password fields submitted: [newPassword, confirmPassword]
NewPasswordForms ==
  { <<"password123", "password123">>, <<"short", "short">>, <<"password123", Mismatch>> }

\* registerSchema: the first issue's message, or "" when the form is valid
registerSchema(username, password, confirmPassword, profile) ==
  IF Len(username) < MinUsername THEN ErrUsernameTooShort
  ELSE IF Len(password) < MinPassword THEN ErrRegPassTooShort
  ELSE IF profile.company_name = "" THEN ErrCompanyRequired
  ELSE IF profile.email \notin ValidEmails THEN ErrEmailInvalid
  ELSE IF profile.phone = "" THEN ErrPhoneRequired
  ELSE IF profile.issuer_person = "" THEN ErrIssuerRequired
  ELSE IF password # confirmPassword THEN ErrPasswordMismatch
  ELSE ""

\* the role argument ignored: every user is inserted as an admin
userCreateAsAdmin(username, password, role) ==
  Put(users, nextUid, [username |-> username, passwordHash |-> Hash(password), role |-> "admin"])

\* the password stored as submitted, without bcrypt.hash
userCreatePlaintext(username, password, role) ==
  Put(users, nextUid, [username |-> username, passwordHash |-> password, role |-> role])

\* userOperations.create: INSERT INTO users (id, username, passwordHash, role)
userCreate(username, password, role) ==
  Put(users, nextUid, [username |-> username, passwordHash |-> Hash(password), role |-> role])

registerAction(username, password, confirmPassword, profile) ==
  /\ Initialized
  /\ IF registerSchema(username, password, confirmPassword, profile) # ""
     THEN /\ last' = Result("register",
                       registerSchema(username, password, confirmPassword, profile), "invalid-form")
          /\ UNCHANGED <<users, nextUid>>
     ELSE IF findByUsername(username) # {}
     THEN /\ last' = Result("register", ErrUsernameTaken, "taken")
          /\ UNCHANGED <<users, nextUid>>
     ELSE /\ nextUid <= MaxUsers
          /\ users' = userCreate(username, password, "agent")
          /\ nextUid' = nextUid + 1
          /\ last' = Result("register", Success, "")
  /\ UNCHANGED <<sessions, devices, meta, cookie, now, nextSid, nextDid>>

createAgentAction(username, password, confirmPassword, profile) ==
  /\ Initialized
  /\ cookie' = cookieAfterGetSession
  /\ IF ~IsAdmin
     THEN /\ last' = Result("createAgent", ErrAdminRequired, GateNote)
          /\ UNCHANGED <<users, nextUid>>
     ELSE IF registerSchema(username, password, confirmPassword, profile) # ""
     THEN /\ last' = Result("createAgent",
                       registerSchema(username, password, confirmPassword, profile), "invalid-form")
          /\ UNCHANGED <<users, nextUid>>
     ELSE IF findByUsername(username) # {}
     THEN /\ last' = Result("createAgent", ErrUsernameTaken, "taken")
          /\ UNCHANGED <<users, nextUid>>
     ELSE /\ nextUid <= MaxUsers
          /\ users' = userCreate(username, password, "agent")
          /\ nextUid' = nextUid + 1
          /\ last' = Result("createAgent", Success, "")
  /\ UNCHANGED <<sessions, devices, meta, now, nextSid, nextDid>>

\* ------------------------------------------- registration, await by await
\* Between its username check (await findByUsername) and its INSERT (await
\* bcrypt.hash, await client.execute) a registration is suspended and other
\* calls run.  The two halves of registerAction and createAgentAction:

\* the lowest call number not in use
freeCall ==
  CHOOSE c \in 1..MaxCalls :
    c \notin DOMAIN inflight /\ \A b \in 1..(c - 1) : b \in DOMAIN inflight

\* the users table without its UNIQUE constraint
uniqueViolationNever(username) == FALSE

\* users.username is declared UNIQUE: the INSERT of a username that has a row fails
uniqueViolation(username) == findByUsername(username) # {}

\* registerAction up to the call of userOperations.create
registerBegin(username, password, confirmPassword, profile) ==
  /\ Initialized
  /\ DOMAIN inflight # 1..MaxCalls
  /\ IF registerSchema(username, password, confirmPassword, profile) # ""
     THEN /\ last' = Result("register",
                       registerSchema(username, password, confirmPassword, profile), "invalid-form")
          /\ UNCHANGED inflight
     ELSE IF findByUsername(username) # {}
     THEN /\ last' = Result("register", ErrUsernameTaken, "taken")
          /\ UNCHANGED inflight
     ELSE /\ inflight' = Put(inflight, freeCall,
                             [op |-> "register", username |-> username, password |-> password])
          /\ last' = Result("register", "", "suspended")
  /\ UNCHANGED <<users, sessions, devices, meta, cookie, now, nextUid, nextSid, nextDid>>

\* createAgentAction up to the call of userOperations.create
createAgentBegin(username, password, confirmPassword, profile) ==
  /\ Initialized
  /\ DOMAIN inflight # 1..MaxCalls
  /\ cookie' = cookieAfterGetSession
  /\ IF ~IsAdmin
     THEN /\ last' = Result("createAgent", ErrAdminRequired, GateNote)
          /\ UNCHANGED inflight
     ELSE IF registerSchema(username, password, confirmPassword, profile) # ""
     THEN /\ last' = Result("createAgent",
                       registerSchema(username, password, confirmPassword, profile), "invalid-form")
          /\ UNCHANGED inflight
     ELSE IF findByUsername(username) # {}
     THEN /\ last' = Result("createAgent", ErrUsernameTaken, "taken")
          /\ UNCHANGED inflight
     ELSE /\ inflight' = Put(inflight, freeCall,
                             [op |-> "createAgent", username |-> username, password |-> password])
          /\ last' = Result("createAgent", "", "suspended")
  /\ UNCHANGED <<users, sessions, devices, meta, now, nextUid, nextSid, nextDid>>

\* the rest of either action: userOperations.create, then the success result,
\* or the catch when the INSERT throws
userCreateFinish(call) ==
  /\ call \in DOMAIN inflight
  /\ IF uniqueViolation(inflight[call].username)
     THEN /\ last' = Result(inflight[call].op,
                            IF inflight[call].op = "register" THEN ErrRegisterFailed
                                                              ELSE ErrCreateAgentFailed,
                            "unique-violation")
          /\ UNCHANGED <<users, nextUid>>
     ELSE /\ nextUid <= MaxUsers
          /\ users' = userCreate(inflight[call].username, inflight[call].password, "agent")
          /\ nextUid' = nextUid + 1
          /\ last' = Result(inflight[call].op, Success, "inserted")
  /\ inflight' = Drop(inflight, {call})
  /\ UNCHANGED <<sessions, devices, meta, cookie, now, nextSid, nextDid>>

\* userOperations.deleteById:
\*   DELETE FROM devices WHERE agentId = ?
devicesAfterDeleteById(userId) ==
  Drop(devices, {d \in DOMAIN devices : devices[d].agentId = userId})

\*   DELETE FROM sessions WHERE userId = ?
sessionsAfterDeleteById(userId) ==
  Drop(sessions, {s \in DOMAIN sessions : sessions[s].userId = userId})

\*   DELETE FROM users WHERE id = ?
usersAfterDeleteById(userId) == Drop(users, {userId})

\* the self check dropped
isSelfNever(agentId) == FALSE

\* "Don't allow deleting self": agentId === session.userId
isSelf(agentId) == agentId = getSession.userId

deleteAgentAction(agentId) ==
  /\ Initialized
  /\ cookie' = cookieAfterGetSession
  /\ IF ~IsAdmin
     THEN /\ last' = Result("deleteAgent", ErrAdminRequired, GateNote)
          /\ UNCHANGED <<users, sessions, devices>>
     ELSE IF isSelf(agentId)
     THEN /\ last' = Result("deleteAgent", ErrSelfDelete, "self")
          /\ UNCHANGED <<users, sessions, devices>>
     ELSE /\ devices' = devicesAfterDeleteById(agentId)
          /\ sessions' = sessionsAfterDeleteById(agentId)
          /\ users' = usersAfterDeleteById(agentId)
          /\ last' = Result("deleteAgent", Success,
                            IF agentId \notin DOMAIN users THEN "no-row"
                            ELSE IF \E d \in DOMAIN devices : devices[d].agentId = agentId
                                 THEN "owner" ELSE "deleted")
  /\ UNCHANGED <<meta, now, nextUid, nextSid, nextDid>>

\* the UPDATE without its WHERE clause: every user gets the new hash
updatePasswordAllRows(userId, newPassword) ==
  [u \in DOMAIN users |-> [users[u] EXCEPT !.passwordHash = Hash(newPassword)]]

\* userOperations.updatePassword: UPDATE users SET passwordHash = ? WHERE id = ?
updatePassword(userId, newPassword) ==
  [u \in DOMAIN users |->
     IF u = userId THEN [users[u] EXCEPT !.passwordHash = Hash(newPassword)] ELSE users[u]]

\* the call that deletes the user's sessions left out
invalidateUserSessionsNoop(userId) == sessions

\* userOperations.invalidateUserSessions: DELETE FROM sessions WHERE userId = ?
invalidateUserSessions(userId) ==
  Drop(sessions, {s \in DOMAIN sessions : sessions[s].userId = userId})

\* changeAgentPasswordSchema: the first issue's message, or ""
changeAgentPasswordSchema(agentId, newPassword, confirmPassword) ==
  IF agentId = NULL THEN ErrAgentIdRequired
  ELSE IF Len(newPassword) < MinPassword THEN ErrPasswordTooShort
  ELSE IF newPassword # confirmPassword THEN ErrPasswordMismatch
  ELSE ""

changeAgentPasswordAction(agentId, newPassword, confirmPassword) ==
  /\ Initialized
  /\ cookie' = cookieAfterGetSession
  /\ IF ~IsAdmin
     THEN /\ last' = Result("changeAgentPassword", ErrAdminRequired, GateNote)
          /\ UNCHANGED <<users, sessions>>
     ELSE IF changeAgentPasswordSchema(agentId, newPassword, confirmPassword) # ""
     THEN /\ last' = Result("changeAgentPassword",
                       changeAgentPasswordSchema(agentId, newPassword, confirmPassword),
                       "invalid-form")
          /\ UNCHANGED <<users, sessions>>
     ELSE IF agentId \notin DOMAIN users
     THEN /\ last' = Result("changeAgentPassword", ErrAgentNotFound, "no-such-user")
          /\ UNCHANGED <<users, sessions>>
     ELSE /\ users' = updatePassword(agentId, newPassword)
          /\ sessions' = invalidateUserSessions(agentId)
          /\ last' = Result("changeAgentPassword", Success,
                            IF \E s \in DOMAIN sessions : sessions[s].userId = agentId
                            THEN "revoked" ELSE "no-session")
  /\ UNCHANGED <<devices, meta, now, nextUid, nextSid, nextDid>>

\* changePasswordSchema: the first issue's message, or ""
changePasswordSchema(currentPassword, newPassword, confirmPassword) ==
  IF currentPassword = "" THEN ErrCurrentRequired
  ELSE IF Len(newPassword) < MinPassword THEN ErrNewTooShort
  ELSE IF newPassword # confirmPassword THEN ErrNewMismatch
  ELSE ""

changePasswordAction(currentPassword, newPassword, confirmPassword) ==
  /\ Initialized
  /\ cookie' = cookieAfterGetSession
  /\ IF getSession = NoSession
     THEN /\ last' = Result("changePassword", ErrSessionRequired, GateNote)
          /\ UNCHANGED users
     ELSE IF changePasswordSchema(currentPassword, newPassword, confirmPassword) # ""
     THEN /\ last' = Result("changePassword",
                       changePasswordSchema(currentPassword, newPassword, confirmPassword),
                       "invalid-form")
          /\ UNCHANGED users
     ELSE IF findByUsername(getSession.username) = {}
     THEN /\ last' = Result("changePassword", ErrUserNotFound, "no-such-user")
          /\ UNCHANGED users
     ELSE LET u == CHOOSE x \in findByUsername(getSession.username) : TRUE IN
          IF ~verifyPassword(users[u].passwordHash, currentPassword)
          THEN /\ last' = Result("changePassword", ErrCurrentWrong, "wrong-password")
               /\ UNCHANGED users
          ELSE /\ users' = updatePassword(getSession.userId, newPassword)
               /\ last' = Result("changePassword", Success, "")
  /\ UNCHANGED <<sessions, devices, meta, now, nextUid, nextSid, nextDid>>

\* ---------------------------------------------------------------- devices
\* the object { id, username, password } that deviceOperations.create returns
\* for the row it inserted under id
DeviceOut(id, row) ==
  [kind |-> "device", id |-> id, username |-> row.username, password |-> row.password]

\* the role test dropped: every existing user passes
roleIsAnyRole(user) == TRUE

\* the test "user.role !== 'agent'" on a users row
roleIsAgent(user) == user.role = "agent"

\* the suffix branch never taken: the device is named as the owner is
deviceCreateNoSuffix(agentId, agentNameOrUsername, providedPassword, status, suffix, generated) ==
  [agentId  |-> agentId,
   username |-> agentNameOrUsername,
   password |-> IF providedPassword # "" THEN providedPassword ELSE generated,
   status   |-> status]

\* deviceOperations.create: the row inserted (and the credentials returned)
deviceCreate(agentId, agentNameOrUsername, providedPassword, status, suffix, generated) ==
  IF agentId # NULL /\ providedPassword = ""
  THEN [agentId  |-> agentId,
        username |-> agentNameOrUsername \o "_" \o suffix,
        password |-> generated,
        status   |-> status]
  ELSE [agentId  |-> agentId,
        username |-> agentNameOrUsername,
        password |-> IF providedPassword # "" THEN providedPassword ELSE generated,
        status   |-> status]

createDeviceAction ==
  /\ Initialized
  /\ cookie' = cookieAfterGetSession
  /\ IF ~IsAgent
     THEN /\ last' = Result("createDevice", ErrUnauthorized, GateNote)
          /\ UNCHANGED <<devices, nextDid>>
     ELSE /\ nextDid <= MaxDevices
          /\ \E suffix \in Suffixes, generated \in DevicePws :
               LET device == deviceCreate(getSession.userId, getSession.username, "", "pending",
                                          suffix, generated)
               IN  /\ devices' = Put(devices, nextDid, device)
                   /\ last' = ResultOut("createDevice", Success, "", DeviceOut(nextDid, device))
          /\ nextDid' = nextDid + 1
  /\ UNCHANGED <<users, sessions, meta, now, nextUid, nextSid>>

createDeviceForAgentAction(agentId, agentName) ==
  /\ Initialized
  /\ cookie' = cookieAfterGetSession
  /\ IF ~IsAdmin
     THEN /\ last' = Result("createDeviceForAgent", ErrAdminRequired, GateNote)
          /\ UNCHANGED <<devices, nextDid>>
     ELSE IF agentId = NULL \/ agentName = ""
     THEN /\ last' = Result("createDeviceForAgent", ErrAgentFormRequired, "invalid-form")
          /\ UNCHANGED <<devices, nextDid>>
     ELSE IF agentId \notin DOMAIN users
     THEN /\ last' = Result("createDeviceForAgent", ErrAgentNotFound, "no-such-user")
          /\ UNCHANGED <<devices, nextDid>>
     ELSE IF ~roleIsAgent(users[agentId])
     THEN /\ last' = Result("createDeviceForAgent", ErrUserNotAgent, "not-agent")
          /\ UNCHANGED <<devices, nextDid>>
     ELSE /\ nextDid <= MaxDevices
          /\ \E suffix \in Suffixes, generated \in DevicePws :
               LET device == deviceCreate(agentId, agentName, "", "pending", suffix, generated)
               IN  /\ devices' = Put(devices, nextDid, device)
                   /\ last' = ResultOut("createDeviceForAgent", Success, "",
                                        DeviceOut(nextDid, device))
          /\ nextDid' = nextDid + 1
  /\ UNCHANGED <<users, sessions, meta, now, nextUid, nextSid>>

\* approve as a toggle: an active device goes back to pending
approveToggle(deviceId) ==
  [d \in DOMAIN devices |->
     IF d = deviceId
     THEN [devices[d] EXCEPT !.status = IF @ = "pending" THEN "active" ELSE "pending"]
     ELSE devices[d]]

\* deviceOperations.approve: UPDATE devices SET status = 'active' WHERE id = ?
approve(deviceId) ==
  [d \in DOMAIN devices |->
     IF d = deviceId THEN [devices[d] EXCEPT !.status = "active"] ELSE devices[d]]

approveDeviceAction(deviceId) ==
  /\ Initialized
  /\ cookie' = cookieAfterGetSession
  /\ IF ~IsAdmin
     THEN /\ last' = Result("approveDevice", ErrUnauthorized, GateNote)
          /\ UNCHANGED devices
     ELSE /\ devices' = approve(deviceId)
          /\ last' = Result("approveDevice", Success,
                            IF deviceId \notin DOMAIN devices THEN "no-row"
                            ELSE devices[deviceId].status)
  /\ UNCHANGED <<users, sessions, meta, now, nextUid, nextSid, nextDid>>

\* deviceOperations.delete: DELETE FROM devices WHERE id = ?
deleteDeviceAction(deviceId) ==
  /\ Initialized
  /\ cookie' = cookieAfterGetSession
  /\ IF ~IsAdmin
     THEN /\ last' = Result("deleteDevice", ErrUnauthorized, GateNote)
          /\ UNCHANGED devices
     ELSE /\ devices' = Drop(devices, {deviceId})
          /\ last' = Result("deleteDevice", Success,
                            IF deviceId \in DOMAIN devices THEN "deleted" ELSE "no-row")
  /\ UNCHANGED <<users, sessions, meta, now, nextUid, nextSid, nextDid>>

\* ------------------------------------------- the store rejecting a statement
ErrCreateDeviceFailed  == "Cihaz hesabi olusturulurken bir hata olustu"
ErrApproveDeviceFailed == "Cihaz hesabi onaylanirken bir hata olustu"
ErrDeleteDeviceFailed  == "Cihaz hesabi silinirken bir hata olustu"

\* what became of the rejection of a store call: taken by the action's catch,
\* or left on a promise nobody awaits (an unhandled rejection)
FaultOut(unhandled) == [kind |-> "fault", unhandled |-> unhandled]

\* The result of an action whose store call is rejected inside its try block.
\* An awaited call throws into the catch, which returns the action's error.
\* A call without await hands back a promise: the try block runs on to the
\* success return and the rejection stays unhandled.
ResultOfRejectedCall(op, awaited, error) ==
  IF awaited
  THEN ResultOut(op, error, "store-rejected", FaultOut(FALSE))
  ELSE ResultOut(op, Success, "store-rejected", FaultOut(TRUE))

\* createDeviceAction when the store rejects the INSERT: "await
\* deviceOperations.create(...)"
createDeviceActionRejected ==
  /\ Initialized
  /\ cookie' = cookieAfterGetSession
  /\ last' = IF ~IsAgent
             THEN Result("createDevice", ErrUnauthorized, GateNote)
             ELSE ResultOfRejectedCall("createDevice", TRUE, ErrCreateDeviceFailed)
  /\ UNCHANGED <<users, sessions, devices, meta, now, nextUid, nextSid, nextDid>>

\* approveDeviceAction when the store rejects the UPDATE:
\* "deviceOperations.approve(deviceId)" without await
approveDeviceActionRejected(deviceId) ==
  /\ Initialized
  /\ cookie' = cookieAfterGetSession
  /\ last' = IF ~IsAdmin
             THEN Result("approveDevice", ErrUnauthorized, GateNote)
             ELSE ResultOfRejectedCall("approveDevice", FALSE, ErrApproveDeviceFailed)
  /\ UNCHANGED <<users, sessions, devices, meta, now, nextUid, nextSid, nextDid>>

\* deleteDeviceAction when the store rejects the DELETE:
\* "deviceOperations.delete(deviceId)" without await
deleteDeviceActionRejected(deviceId) ==
  /\ Initialized
  /\ cookie' = cookieAfterGetSession
  /\ last' = IF ~IsAdmin
             THEN Result("deleteDevice", ErrUnauthorized, GateNote)
             ELSE ResultOfRejectedCall("deleteDevice", FALSE, ErrDeleteDeviceFailed)
  /\ UNCHANGED <<users, sessions, devices, meta, now, nextUid, nextSid, nextDid>>

\* The ownership actions test "!device" on the value of
\* deviceOperations.findById(deviceId), called without await: the value is
\* the pending Promise of the async lookup, an object, whatever the id.
deviceIsFalsy(deviceId) == FALSE

\* the UPDATE without its WHERE clause: every device goes to the new agent
transferOwnershipAllRows(deviceId, newAgentId) ==
  [d \in DOMAIN devices |-> [devices[d] EXCEPT !.agentId = newAgentId]]

\* deviceOperations.transferOwnership: UPDATE devices SET agentId = ? WHERE id = ?
transferOwnership(deviceId, newAgentId) ==
  [d \in DOMAIN devices |->
     IF d = deviceId THEN [devices[d] EXCEPT !.agentId = newAgentId] ELSE devices[d]]

\* an UPDATE that also sends the device back to approval
removeOwnershipResetsStatus(deviceId) ==
  [d \in DOMAIN devices |->
     IF d = deviceId THEN [devices[d] EXCEPT !.agentId = NULL, !.status = "pending"]
     ELSE devices[d]]

\* deviceOperations.removeOwnership: UPDATE devices SET agentId = NULL WHERE id = ?
removeOwnership(deviceId) ==
  [d \in DOMAIN devices |->
     IF d = deviceId THEN [devices[d] EXCEPT !.agentId = NULL] ELSE devices[d]]

transferDeviceOwnershipAction(deviceId, newAgentId) ==
  /\ Initialized
  /\ cookie' = cookieAfterGetSession
  /\ IF ~IsAdmin
     THEN /\ last' = Result("transferDeviceOwnership", ErrAdminRequired, GateNote)
          /\ UNCHANGED devices
     ELSE IF deviceId = NULL \/ newAgentId = NULL
     THEN /\ last' = Result("transferDeviceOwnership", ErrTransferRequired, "invalid-form")
          /\ UNCHANGED devices
     ELSE IF deviceIsFalsy(deviceId)
     THEN /\ last' = Result("transferDeviceOwnership", ErrDeviceNotFound, "no-such-device")
          /\ UNCHANGED devices
     ELSE IF newAgentId \notin DOMAIN users
     THEN /\ last' = Result("transferDeviceOwnership", ErrNewAgentNotFound, "no-such-user")
          /\ UNCHANGED devices
     ELSE IF ~roleIsAgent(users[newAgentId])
     THEN /\ last' = Result("transferDeviceOwnership", ErrTargetNotAgent, "not-agent")
          /\ UNCHANGED devices
     ELSE /\ devices' = transferOwnership(deviceId, newAgentId)
          /\ last' = Result("transferDeviceOwnership", Success,
                            IF deviceId \notin DOMAIN devices THEN "no-row"
                            ELSE devices[deviceId].status)
  /\ UNCHANGED <<users, sessions, meta, now, nextUid, nextSid, nextDid>>

removeDeviceOwnershipAction(deviceId) ==
  /\ Initialized
  /\ cookie' = cookieAfterGetSession
  /\ IF ~IsAdmin
     THEN /\ last' = Result("removeDeviceOwnership", ErrAdminRequired, GateNote)
          /\ UNCHANGED devices
     ELSE IF deviceId = NULL
     THEN /\ last' = Result("removeDeviceOwnership", ErrDeviceIdRequired, "invalid-form")
          /\ UNCHANGED devices
     ELSE IF deviceIsFalsy(deviceId)
     THEN /\ last' = Result("removeDeviceOwnership", ErrDeviceNotFound, "no-such-device")
          /\ UNCHANGED devices
     ELSE /\ devices' = removeOwnership(deviceId)
          /\ last' = Result("removeDeviceOwnership", Success,
                            IF deviceId \notin DOMAIN devices THEN "no-row"
                            ELSE devices[deviceId].status)
  /\ UNCHANGED <<users, sessions, meta, now, nextUid, nextSid, nextDid>>

\* ------------------------------------------------ ownership, await by await
\* An action is suspended at each await, and a statement it has sent runs at
\* the store when the store gets to it: between the check an action makes
\* (the session, the agent's row) and the write it sends, and between the
\* three statements of userOperations.deleteById, the statements of other
\* calls run.

ErrCreateForAgentFailed == "Cihaz olusturulurken bir hata olustu"

\* devices.agentId is declared FOREIGN KEY (agentId) REFERENCES users (id):
\* a store that enforces the clause rejects the write of an agentId that
\* names no user.  The schema declares the clause and the code sets no
\* PRAGMA: whether it is enforced is the default of the SQLite build behind
\* the client.
foreignKeyViolation(agentId) ==
  foreignKeys /\ agentId # NULL /\ agentId \notin DOMAIN users

\* createDeviceAction up to the INSERT of deviceOperations.create
createDeviceBegin ==
  /\ Initialized
  /\ DOMAIN inflight # 1..MaxCalls
  /\ cookie' = cookieAfterGetSession
  /\ IF ~IsAgent
     THEN /\ last' = Result("createDevice", ErrUnauthorized, GateNote)
          /\ UNCHANGED inflight
     ELSE /\ inflight' = Put(inflight, freeCall,
                             [op |-> "createDevice", agentId |-> getSession.userId,
                              name |-> getSession.username])
          /\ last' = Result("createDevice", "", "suspended")
  /\ UNCHANGED <<users, sessions, devices, meta, now, nextUid, nextSid, nextDid, foreignKeys, granted>>

\* createDeviceForAgentAction up to the INSERT of deviceOperations.create
createDeviceForAgentBegin(agentId, agentName) ==
  /\ Initialized
  /\ DOMAIN inflight # 1..MaxCalls
  /\ cookie' = cookieAfterGetSession
  /\ IF ~IsAdmin
     THEN /\ last' = Result("createDeviceForAgent", ErrAdminRequired, GateNote)
          /\ UNCHANGED inflight
     ELSE IF agentId = NULL \/ agentName = ""
     THEN /\ last' = Result("createDeviceForAgent", ErrAgentFormRequired, "invalid-form")
          /\ UNCHANGED inflight
     ELSE IF agentId \notin DOMAIN users
     THEN /\ last' = Result("createDeviceForAgent", ErrAgentNotFound, "no-such-user")
          /\ UNCHANGED inflight
     ELSE IF ~roleIsAgent(users[agentId])
     THEN /\ last' = Result("createDeviceForAgent", ErrUserNotAgent, "not-agent")
          /\ UNCHANGED inflight
     ELSE /\ inflight' = Put(inflight, freeCall,
                             [op |-> "createDeviceForAgent", agentId |-> agentId,
                              name |-> agentName])
          /\ last' = Result("createDeviceForAgent", "", "suspended")
  /\ UNCHANGED <<users, sessions, devices, meta, now, nextUid, nextSid, nextDid, foreignKeys, granted>>

\* the rest of either action: the awaited INSERT, then the success result, or
\* the catch when the store rejects the row
deviceCreateFinish(call) ==
  /\ call \in DOMAIN inflight
  /\ inflight[call].op \in {"createDevice", "createDeviceForAgent"}
  /\ IF foreignKeyViolation(inflight[call].agentId)
     THEN /\ last' = Result(inflight[call].op,
                            IF inflight[call].op = "createDevice" THEN ErrCreateDeviceFailed
                                                                  ELSE ErrCreateForAgentFailed,
                            "foreign-key")
          /\ UNCHANGED <<devices, nextDid>>
     ELSE /\ nextDid <= MaxDevices
          /\ \E suffix \in Suffixes, generated \in DevicePws :
               LET device == deviceCreate(inflight[call].agentId, inflight[call].name, "",
                                          "pending", suffix, generated)
               IN  /\ devices' = Put(devices, nextDid, device)
                   /\ last' = ResultOut(inflight[call].op, Success, "inserted",
                                        DeviceOut(nextDid, device))
          /\ nextDid' = nextDid + 1
  /\ inflight' = Drop(inflight, {call})
  /\ UNCHANGED <<users, sessions, meta, cookie, now, nextUid, nextSid, foreignKeys, granted>>

\* transferDeviceOwnershipAction: its checks, the UPDATE sent without await,
\* and the success it returns at once
transferDeviceOwnershipBegin(deviceId, newAgentId) ==
  /\ Initialized
  /\ DOMAIN inflight # 1..MaxCalls
  /\ cookie' = cookieAfterGetSession
  /\ IF ~IsAdmin
     THEN /\ last' = Result("transferDeviceOwnership", ErrAdminRequired, GateNote)
          /\ UNCHANGED inflight
     ELSE IF deviceId = NULL \/ newAgentId = NULL
     THEN /\ last' = Result("transferDeviceOwnership", ErrTransferRequired, "invalid-form")
          /\ UNCHANGED inflight
     ELSE IF deviceIsFalsy(deviceId)
     THEN /\ last' = Result("transferDeviceOwnership", ErrDeviceNotFound, "no-such-device")
          /\ UNCHANGED inflight
     ELSE IF newAgentId \notin DOMAIN users
     THEN /\ last' = Result("transferDeviceOwnership", ErrNewAgentNotFound, "no-such-user")
          /\ UNCHANGED inflight
     ELSE IF ~roleIsAgent(users[newAgentId])
     THEN /\ last' = Result("transferDeviceOwnership", ErrTargetNotAgent, "not-agent")
          /\ UNCHANGED inflight
     ELSE /\ inflight' = Put(inflight, freeCall,
                             [op |-> "transferDeviceOwnership", agentId |-> newAgentId,
                              deviceId |-> deviceId])
          /\ last' = Result("transferDeviceOwnership", Success, "sent")
  /\ UNCHANGED <<users, sessions, devices, meta, now, nextUid, nextSid, nextDid, foreignKeys, granted>>

\* the UPDATE of deviceOperations.transferOwnership at the store
transferOwnershipStatement(call) ==
  /\ call \in DOMAIN inflight
  /\ inflight[call].op = "transferDeviceOwnership"
  /\ IF foreignKeyViolation(inflight[call].agentId)
     THEN /\ last' = Result("transferOwnership", "", "foreign-key")
          /\ UNCHANGED devices
     ELSE /\ devices' = transferOwnership(inflight[call].deviceId, inflight[call].agentId)
          /\ last' = Result("transferOwnership", "", "updated")
  /\ inflight' = Drop(inflight, {call})
  /\ UNCHANGED <<users, sessions, meta, cookie, now, nextUid, nextSid, nextDid, foreignKeys, granted>>

\* deleteAgentAction: its checks, userOperations.deleteById called without
\* await, and the success it returns at once
deleteAgentBegin(agentId) ==
  /\ Initialized
  /\ DOMAIN inflight # 1..MaxCalls
  /\ cookie' = cookieAfterGetSession
  /\ IF ~IsAdmin
     THEN /\ last' = Result("deleteAgent", ErrAdminRequired, GateNote)
          /\ UNCHANGED inflight
     ELSE IF isSelf(agentId)
     THEN /\ last' = Result("deleteAgent", ErrSelfDelete, "self")
          /\ UNCHANGED inflight
     ELSE /\ inflight' = Put(inflight, freeCall,
                             [op |-> "deleteAgent", agentId |-> agentId, statement |-> 1])
          /\ last' = Result("deleteAgent", Success, "sent")
  /\ UNCHANGED <<users, sessions, devices, meta, now, nextUid, nextSid, nextDid, foreignKeys, granted>>

\* the referential actions of an enforced DELETE FROM users: devices.agentId
\* ON DELETE SET NULL
devicesOnDeleteSetNull(userId) ==
  [d \in DOMAIN devices |->
     IF devices[d].agentId = userId THEN [devices[d] EXCEPT !.agentId = NULL] ELSE devices[d]]

\* the next of the three statements of userOperations.deleteById at the store
deleteByIdStatement(call) ==
  /\ call \in DOMAIN inflight
  /\ inflight[call].op = "deleteAgent"
  /\ LET userId == inflight[call].agentId IN
     IF inflight[call].statement = 1
     THEN /\ devices' = devicesAfterDeleteById(userId)
          /\ inflight' = [inflight EXCEPT ![call].statement = 2]
          /\ UNCHANGED <<users, sessions>>
     ELSE IF inflight[call].statement = 2
     THEN /\ sessions' = sessionsAfterDeleteById(userId)
          /\ inflight' = [inflight EXCEPT ![call].statement = 3]
          /\ UNCHANGED <<users, devices>>
     ELSE /\ users' = usersAfterDeleteById(userId)
          /\ devices' = IF foreignKeys THEN devicesOnDeleteSetNull(userId) ELSE devices
          /\ sessions' = IF foreignKeys THEN sessionsAfterDeleteById(userId) ELSE sessions
          /\ inflight' = Drop(inflight, {call})
  /\ last' = Result("deleteById", "", "statement")
  /\ UNCHANGED <<meta, cookie, now, nextUid, nextSid, nextDid, foreignKeys, granted>>

\* ---------------------------------------------------- login, await by await
\* loginAction up to auth.createSession: the form, the user's row, and the
\* comparison of the password with the hash of the row it read
loginBegin(username, password) ==
  /\ Initialized
  /\ DOMAIN inflight # 1..MaxCalls
  /\ IF username = "" \/ password = ""
     THEN /\ last' = Result("login",
                       IF username = "" THEN ErrLoginUserRequired ELSE ErrLoginPassRequired,
                       "invalid-form")
          /\ UNCHANGED inflight
     ELSE IF findByUsername(username) = {}
     THEN /\ last' = Result("login", ErrInvalidLogin, "no-such-user")
          /\ UNCHANGED inflight
     ELSE LET u == CHOOSE x \in findByUsername(username) : TRUE IN
          IF ~verifyPassword(users[u].passwordHash, password)
          THEN /\ last' = Result("login", ErrInvalidLogin, "wrong-password")
               /\ UNCHANGED inflight
          ELSE /\ inflight' = Put(inflight, freeCall,
                                  [op |-> "login", userId |-> u, role |-> users[u].role,
                                   verified |-> users[u].passwordHash])
               /\ last' = Result("login", "", "suspended")
  /\ UNCHANGED <<users, sessions, devices, meta, cookie, now, nextUid, nextSid, nextDid,
                 foreignKeys, granted>>

\* the rest of loginAction: the INSERT of sessionOperations.create, the
\* cookie, the redirect.  sessions.userId is declared FOREIGN KEY (userId)
\* REFERENCES users (id): an enforcing store rejects the row of a user who
\* is gone, and the action ends in its catch.
loginFinish(call) ==
  /\ call \in DOMAIN inflight
  /\ inflight[call].op = "login"
  /\ IF foreignKeyViolation(inflight[call].userId)
     THEN /\ last' = Result("login", ErrLoginFailed, "foreign-key")
          /\ UNCHANGED <<sessions, cookie, nextSid, granted>>
     ELSE /\ nextSid <= MaxSessions
          /\ sessions' = sessionCreate(inflight[call].userId)
          /\ cookie' = nextSid
          /\ nextSid' = nextSid + 1
          /\ granted' = Put(granted, nextSid, inflight[call].verified)
          /\ last' = Result("login",
                       redirectInTry(IF inflight[call].role = "admin" THEN "/admin" ELSE "/agent"),
                       "signed-in")
  /\ inflight' = Drop(inflight, {call})
  /\ UNCHANGED <<users, devices, meta, now, nextUid, nextDid, foreignKeys>>

\* changeAgentPasswordAction up to userOperations.updatePassword
changeAgentPasswordBegin(agentId, newPassword, confirmPassword) ==
  /\ Initialized
  /\ DOMAIN inflight # 1..MaxCalls
  /\ cookie' = cookieAfterGetSession
  /\ IF ~IsAdmin
     THEN /\ last' = Result("changeAgentPassword", ErrAdminRequired, GateNote)
          /\ UNCHANGED inflight
     ELSE IF changeAgentPasswordSchema(agentId, newPassword, confirmPassword) # ""
     THEN /\ last' = Result("changeAgentPassword",
                       changeAgentPasswordSchema(agentId, newPassword, confirmPassword),
                       "invalid-form")
          /\ UNCHANGED inflight
     ELSE IF agentId \notin DOMAIN users
     THEN /\ last' = Result("changeAgentPassword", ErrAgentNotFound, "no-such-user")
          /\ UNCHANGED inflight
     ELSE /\ inflight' = Put(inflight, freeCall,
                             [op |-> "changeAgentPassword", agentId |-> agentId,
                              newPassword |-> newPassword, statement |-> 1])
          /\ last' = Result("changeAgentPassword", "", "suspended")
  /\ UNCHANGED <<users, sessions, devices, meta, now, nextUid, nextSid, nextDid,
                 foreignKeys, granted>>

\* the two statements of the rest of changeAgentPasswordAction at the store:
\* the awaited UPDATE of userOperations.updatePassword, after which the
\* action sends userOperations.invalidateUserSessions without await and
\* returns success; then that DELETE
changeAgentPasswordStatement(call) ==
  /\ call \in DOMAIN inflight
  /\ inflight[call].op = "changeAgentPassword"
  /\ IF inflight[call].statement = 1
     THEN /\ users' = updatePassword(inflight[call].agentId, inflight[call].newPassword)
          /\ inflight' = [inflight EXCEPT ![call].statement = 2]
          /\ last' = Result("changeAgentPassword", Success, "sent")
          /\ UNCHANGED sessions
     ELSE /\ sessions' = invalidateUserSessions(inflight[call].agentId)
          /\ inflight' = Drop(inflight, {call})
          /\ last' = Result("invalidateUserSessions", "", "statement")
          /\ UNCHANGED users
  /\ UNCHANGED <<devices, meta, cookie, now, nextUid, nextSid, nextDid, foreignKeys, granted>>

\* ---------------------------------------------------------------- queries
\* the array of rows a query helper returns, as the set of their ids
RowsOut(rows) == [kind |-> "rows", rows |-> rows]

\* the WHERE clause dropped: every device row is returned
findByAgentIdAllRows(agentId) == DOMAIN devices

\* SELECT * FROM devices WHERE agentId = ?
findByAgentId(agentId) == {d \in DOMAIN devices : devices[d].agentId = agentId}

\* SELECT d.*, u.username ... FROM devices d LEFT JOIN users u ... WHERE d.status = 'pending'
findPending == {d \in DOMAIN devices : devices[d].status = "pending"}

\* SELECT d.*, u.username ... FROM devices d LEFT JOIN users u ...
findAll == DOMAIN devices

getCurrentUserDevices ==
  /\ Initialized
  /\ cookie' = cookieAfterGetSession
  /\ last' = IF ~IsAgent
             THEN ResultOut("getCurrentUserDevices", "", GateNote, RowsOut({}))
             ELSE ResultOut("getCurrentUserDevices", "", "", RowsOut(findByAgentId(getSession.userId)))
  /\ UNCHANGED <<users, sessions, devices, meta, now, nextUid, nextSid, nextDid>>

getPendingDevices ==
  /\ Initialized
  /\ cookie' = cookieAfterGetSession
  /\ last' = IF ~IsAdmin
             THEN ResultOut("getPendingDevices", "", GateNote, RowsOut({}))
             ELSE ResultOut("getPendingDevices", "", "", RowsOut(findPending))
  /\ UNCHANGED <<users, sessions, devices, meta, now, nextUid, nextSid, nextDid>>

getAllDevices ==
  /\ Initialized
  /\ cookie' = cookieAfterGetSession
  /\ last' = IF ~IsAdmin
             THEN ResultOut("getAllDevices", "", GateNote, RowsOut({}))
             ELSE ResultOut("getAllDevices", "", "", RowsOut(findAll))
  /\ UNCHANGED <<users, sessions, devices, meta, now, nextUid, nextSid, nextDid>>

\* ------------------------------------------------------------- CSV import
\* Text is a sequence of one-character strings.
IsSpace(ch) == ch \in {" ", "\n", "\t", "\r"}

RECURSIVE TrimLeft(_)
TrimLeft(cs) == IF cs # <<>> /\ IsSpace(Head(cs)) THEN TrimLeft(Tail(cs)) ELSE cs

RECURSIVE TrimRight(_)
TrimRight(cs) ==
  IF cs # <<>> /\ IsSpace(cs[Len(cs)]) THEN TrimRight(SubSeq(cs, 1, Len(cs) - 1)) ELSE cs

\* only the leading white space removed
TrimStartOnly(cs) == TrimLeft(cs)

\* String.prototype.trim
Trim(cs) == TrimRight(TrimLeft(cs))

\* String.prototype.split(sep): the pieces between the separators
RECURSIVE Split(_, _)
Split(cs, sep) ==
  IF \A i \in 1..Len(cs) : cs[i] # sep
  THEN <<cs>>
  ELSE LET i == CHOOSE k \in 1..Len(cs) : cs[k] = sep /\ \A j \in 1..(k - 1) : cs[j] # sep
       IN  <<SubSeq(cs, 1, i - 1)>> \o Split(SubSeq(cs, i + 1, Len(cs)), sep)

\* the string spelled by a sequence of characters
RECURSIVE Str(_)
Str(cs) == IF cs = <<>> THEN "" ELSE Head(cs) \o Str(Tail(cs))

\* line.split(",").map(s => s.trim()), destructured as [username, password];
\* a missing field is undefined, modelled as ""
CsvFields(line) ==
  LET parts == Split(line, ",")
  IN  [username |-> Str(Trim(parts[1])),
       password |-> IF Len(parts) >= 2 THEN Str(Trim(parts[2])) ELSE ""]

CsvLines(csvData) == Split(Trim(csvData), "\n")

\* csvDeviceSchema after the "!username || !password" test
CsvLineValid(line) ==
  /\ CsvFields(line).username # ""
  /\ CsvFields(line).password # ""
  /\ Len(CsvFields(line).username) <= MaxCsvUser
  /\ Len(CsvFields(line).password) <= MaxCsvPass

\* the 1-based numbers i + 1 of the lines pushed to errors
CsvErrors(csvData) ==
  {i \in 1..Len(CsvLines(csvData)) :
     Trim(CsvLines(csvData)[i]) # <<>> /\ ~CsvLineValid(Trim(CsvLines(csvData)[i]))}

\* the devices array: the fields of the non-blank valid lines, in order
RECURSIVE CsvDevicesFrom(_, _)
CsvDevicesFrom(lines, i) ==
  IF i > Len(lines) THEN <<>>
  ELSE IF Trim(lines[i]) # <<>> /\ CsvLineValid(Trim(lines[i]))
       THEN <<CsvFields(Trim(lines[i]))>> \o CsvDevicesFrom(lines, i + 1)
       ELSE CsvDevicesFrom(lines, i + 1)

CsvDevices(csvData) == CsvDevicesFrom(CsvLines(csvData), 1)

ErrCsvRequired   == "CSV verisi gereklidir"
ErrCsvValidation == "Validation errors"
ErrCsvNoDevices  == "CSV verisinde gecerli cihaz bulunamadi"
ErrCsvPartial    == "Bazi cihazlar icin hata olustu"

\* "bob,pw1\n\n alice , pw2 \n"
CsvTwoDevices ==
  <<"b","o","b",",","p","w","1","\n","\n"," ","a","l","i","c","e"," ",","," ","p","w","2"," ","\n">>

\* "bob,pw1\nalice,\n"
CsvEmptyPassword ==
  <<"b","o","b",",","p","w","1","\n","a","l","i","c","e",",","\n">>

\* " \n"
CsvBlank == <<" ","\n">>

\* "\nb,\n"
CsvLeadingBlank == <<"\n","b",",","\n">>

CsvInputs == {CsvTwoDevices, CsvEmptyPassword, CsvBlank, CsvLeadingBlank}

\* what the action computes from the text alone, before it touches the store
CsvParsed ==
  [csvData \in CsvInputs |->
     [blank |-> Trim(csvData) = <<>>, errors |-> CsvErrors(csvData), devices |-> CsvDevices(csvData)]]

\* the store's answers to the INSERTs of one import: the positions in the
\* devices array whose INSERT is rejected
InsertFailures(csvData) == SUBSET (1..Len(CsvParsed[csvData].devices))

\* the rows whose INSERT goes through, in order
RECURSIVE Inserted(_, _, _)
Inserted(rows, failed, i) ==
  IF i > Len(rows) THEN <<>>
  ELSE (IF i \in failed THEN <<>> ELSE <<rows[i]>>) \o Inserted(rows, failed, i + 1)

\* the calls of deviceOperations.create that throw into the catch of the
\* creation loop: create is an async function called without await, it hands
\* back a promise and a rejected INSERT never reaches the catch
createThrows(failed) == {}

\* the payload of the result: the line numbers of the validation errors and
\* the count createdDevices.length of the message
ImportOut(lines, count) == [kind |-> "import", lines |-> lines, count |-> count]

\* The INSERTs are issued by the loop and settle on their own; the step
\* includes their outcome.
importDevicesFromCSVAction(csvData, failed) ==
  /\ Initialized
  /\ cookie' = cookieAfterGetSession
  /\ IF ~IsAdmin
     THEN /\ last' = Result("importDevicesFromCSV", ErrAdminRequired, GateNote)
          /\ UNCHANGED <<devices, nextDid>>
     ELSE IF CsvParsed[csvData].blank
     THEN /\ last' = Result("importDevicesFromCSV", ErrCsvRequired, "invalid-form")
          /\ UNCHANGED <<devices, nextDid>>
     ELSE IF CsvParsed[csvData].errors # {}
     THEN /\ last' = ResultOut("importDevicesFromCSV", ErrCsvValidation, "invalid-lines",
                               ImportOut(CsvParsed[csvData].errors, 0))
          /\ UNCHANGED <<devices, nextDid>>
     ELSE IF CsvParsed[csvData].devices = <<>>
     THEN /\ last' = Result("importDevicesFromCSV", ErrCsvNoDevices, "no-devices")
          /\ UNCHANGED <<devices, nextDid>>
     ELSE LET rows == Inserted(CsvParsed[csvData].devices, failed, 1)
              creationErrors == createThrows(failed)
              createdDevices == Len(CsvParsed[csvData].devices) - Cardinality(creationErrors)
          IN
          /\ nextDid + Len(rows) - 1 <= MaxDevices
          /\ \E suffix \in Suffixes, generated \in DevicePws :
               devices' = [d \in DOMAIN devices \cup (nextDid..(nextDid + Len(rows) - 1)) |->
                             IF d \in DOMAIN devices THEN devices[d]
                             ELSE deviceCreate(NULL, rows[d - nextDid + 1].username,
                                               rows[d - nextDid + 1].password, "active",
                                               suffix, generated)]
          /\ nextDid' = nextDid + Len(rows)
          /\ last' = IF creationErrors # {}
                     THEN ResultOut("importDevicesFromCSV", ErrCsvPartial, "insert-failed",
                                    ImportOut({}, createdDevices))
                     ELSE ResultOut("importDevicesFromCSV", Success,
                                    IF failed = {} THEN "" ELSE "insert-failed",
                                    ImportOut({}, createdDevices))
  /\ UNCHANGED <<users, sessions, meta, now, nextUid, nextSid>>

NextAccounts ==
  \/ UNCHANGED <<inflight, foreignKeys, granted>> /\ initializeDatabase
  \/ UNCHANGED <<inflight, foreignKeys, granted>> /\ Tick
  \/ UNCHANGED <<inflight, foreignKeys, granted>> /\ deleteExpired
  \/ UNCHANGED <<inflight, foreignKeys, granted>> /\ \E t \in 0..(nextSid - 1) : PresentToken(t)
  \/ UNCHANGED <<inflight, foreignKeys, granted>> /\ \E u \in Usernames, p \in Passwords : loginAction(u, p)
  \/ UNCHANGED <<inflight, foreignKeys, granted>> /\ logoutAction
  \/ UNCHANGED <<inflight, foreignKeys, granted>> /\ \E f \in RegisterForms :
              registerAction(f.username, f.password, f.confirmPassword, f.profile)
  \/ UNCHANGED <<inflight, foreignKeys, granted>> /\ \E f \in RegisterForms :
              createAgentAction(f.username, f.password, f.confirmPassword, f.profile)
  \/ UNCHANGED <<inflight, foreignKeys, granted>> /\ \E a \in 0..(nextUid - 1) : deleteAgentAction(a)
  \/ UNCHANGED <<inflight, foreignKeys, granted>> /\ \E a \in 0..(nextUid - 1), f \in NewPasswordForms : changeAgentPasswordAction(a, f[1], f[2])
  \/ UNCHANGED <<inflight, foreignKeys, granted>> /\ \E o \in Passwords, f \in NewPasswordForms : changePasswordAction(o, f[1], f[2])

\* A state of the running system: the database seeded with the default admin,
\* who has logged in at time 0.
InitAccounts ==
  /\ users = (1 :> [username |-> "admin", passwordHash |-> Hash("password123"), role |-> "admin"])
  /\ sessions = (1 :> [userId |-> 1, expiresAt |-> SessionTTL])
  /\ devices = <<>>
  /\ meta = {"initialized"}
  /\ cookie = 1
  /\ now = 0
  /\ nextUid = 2
  /\ nextSid = 2
  /\ nextDid = 1
  /\ last = Result("login", redirectInTry("/admin"), "signed-in")
  /\ inflight = <<>>
  /\ foreignKeys = TRUE
  /\ granted = <<>>

Spec == InitAccounts /\ [][NextAccounts]_vars

\* The database as a start of the process finds it: without any row, or that
\* of a running installation.
InitStartup == Init \/ InitAccounts

\* The start of the process and the actions that add and remove users.
NextStartup ==
  \/ UNCHANGED <<inflight, foreignKeys, granted>> /\ initializeDatabase
  \/ UNCHANGED <<inflight, foreignKeys, granted>> /\ \E t \in 0..(nextSid - 1) : PresentToken(t)
  \/ UNCHANGED <<inflight, foreignKeys, granted>> /\ \E u \in Usernames, p \in Passwords : loginAction(u, p)
  \/ UNCHANGED <<inflight, foreignKeys, granted>> /\ \E f \in RegisterForms :
        registerAction(f.username, f.password, f.confirmPassword, f.profile)
  \/ UNCHANGED <<inflight, foreignKeys, granted>> /\ \E f \in RegisterForms :
        createAgentAction(f.username, f.password, f.confirmPassword, f.profile)
  \/ UNCHANGED <<inflight, foreignKeys, granted>> /\ \E a \in 0..(nextUid - 1) : deleteAgentAction(a)

SpecStartup == InitStartup /\ [][NextStartup]_vars

\* ------------------------------------------------------ device scenarios
\* A state of the running system, one session lifetime after the start: the
\* seeded admin (its password rotated), the registered agents agent1 and
\* agent2, the admin's first session, now expired and not yet swept, and the
\* sessions of the admin and of agent1 who have just logged in.
InitDevices ==
  /\ users = (1 :> [username |-> "admin",  passwordHash |-> Hash("password123"), role |-> "admin"])
          @@ (2 :> [username |-> "agent1", passwordHash |-> Hash("password123"), role |-> "agent"])
          @@ (3 :> [username |-> "agent2", passwordHash |-> Hash("password123"), role |-> "agent"])
  /\ sessions = (1 :> [userId |-> 1, expiresAt |-> SessionTTL])
             @@ (2 :> [userId |-> 1, expiresAt |-> 2 * SessionTTL])
             @@ (3 :> [userId |-> 2, expiresAt |-> 2 * SessionTTL])
  /\ devices = <<>>
  /\ meta = {"initialized"}
  /\ cookie = 3
  /\ now = SessionTTL
  /\ nextUid = 4
  /\ nextSid = 4
  /\ nextDid = 1
  /\ last = Result("login", redirectInTry("/agent"), "signed-in")
  /\ inflight = <<>>
  /\ foreignKeys = TRUE
  /\ granted = <<>>

NextDevices ==
  \/ UNCHANGED <<inflight, foreignKeys, granted>> /\ \E t \in 0..(nextSid - 1) : PresentToken(t)
  \/ UNCHANGED <<inflight, foreignKeys, granted>> /\ createDeviceAction
  \/ UNCHANGED <<inflight, foreignKeys, granted>> /\ \E a \in 0..(nextUid - 1), n \in AgentNames : createDeviceForAgentAction(a, n)
  \/ UNCHANGED <<inflight, foreignKeys, granted>> /\ \E csv \in CsvInputs : importDevicesFromCSVAction(csv, {})
  \/ UNCHANGED <<inflight, foreignKeys, granted>> /\ \E d \in 0..MaxDevices : approveDeviceAction(d)
  \/ UNCHANGED <<inflight, foreignKeys, granted>> /\ \E d \in 0..MaxDevices : deleteDeviceAction(d)
  \/ UNCHANGED <<inflight, foreignKeys, granted>> /\ \E d \in 0..MaxDevices, a \in 0..(nextUid - 1) : transferDeviceOwnershipAction(d, a)
  \/ UNCHANGED <<inflight, foreignKeys, granted>> /\ \E d \in 0..MaxDevices : removeDeviceOwnershipAction(d)
  \/ UNCHANGED <<inflight, foreignKeys, granted>> /\ \E a \in 0..(nextUid - 1) : deleteAgentAction(a)
  \/ UNCHANGED <<inflight, foreignKeys, granted>> /\ createAgentAction("admin", "secret1", "secret1", FullProfile)
  \/ UNCHANGED <<inflight, foreignKeys, granted>> /\ \E a \in 0..(nextUid - 1) : changeAgentPasswordAction(a, "password123", "password123")

SpecDevices == InitDevices /\ [][NextDevices]_vars

\* The imports against a store that may reject INSERTs, next to the devices
\* agents create and the admin's deletions.
NextImports ==
  \/ UNCHANGED <<inflight, foreignKeys, granted>> /\ \E t \in 0..(nextSid - 1) : PresentToken(t)
  \/ UNCHANGED <<inflight, foreignKeys, granted>> /\ \E csv \in CsvInputs : \E failed \in InsertFailures(csv) :
              importDevicesFromCSVAction(csv, failed)
  \/ UNCHANGED <<inflight, foreignKeys, granted>> /\ createDeviceAction
  \/ UNCHANGED <<inflight, foreignKeys, granted>> /\ \E d \in 0..MaxDevices : approveDeviceAction(d)
  \/ UNCHANGED <<inflight, foreignKeys, granted>> /\ \E d \in 0..MaxDevices : deleteDeviceAction(d)

SpecImports == InitDevices /\ [][NextImports]_vars

\* The query helpers next to the actions that give, move and take away the
\* ownership of devices.
NextQueries ==
  \/ UNCHANGED <<inflight, foreignKeys, granted>> /\ \E t \in 0..(nextSid - 1) : PresentToken(t)
  \/ UNCHANGED <<inflight, foreignKeys, granted>> /\ getCurrentUserDevices
  \/ UNCHANGED <<inflight, foreignKeys, granted>> /\ getPendingDevices
  \/ UNCHANGED <<inflight, foreignKeys, granted>> /\ getAllDevices
  \/ UNCHANGED <<inflight, foreignKeys, granted>> /\ createDeviceAction
  \/ UNCHANGED <<inflight, foreignKeys, granted>> /\ \E a \in 0..(nextUid - 1), n \in AgentNames : createDeviceForAgentAction(a, n)
  \/ UNCHANGED <<inflight, foreignKeys, granted>> /\ \E d \in 0..MaxDevices, a \in 0..(nextUid - 1) : transferDeviceOwnershipAction(d, a)
  \/ UNCHANGED <<inflight, foreignKeys, granted>> /\ \E d \in 0..MaxDevices : removeDeviceOwnershipAction(d)
  \/ UNCHANGED <<inflight, foreignKeys, granted>> /\ \E d \in 0..MaxDevices : approveDeviceAction(d)

SpecQueries == InitDevices /\ [][NextQueries]_vars

\* The state of InitDevices on a store of either kind: one that enforces the
\* foreign keys of the schema, one that does not.
InitOwnership ==
  /\ users = (1 :> [username |-> "admin",  passwordHash |-> Hash("password123"), role |-> "admin"])
          @@ (2 :> [username |-> "agent1", passwordHash |-> Hash("password123"), role |-> "agent"])
          @@ (3 :> [username |-> "agent2", passwordHash |-> Hash("password123"), role |-> "agent"])
  /\ sessions = (1 :> [userId |-> 1, expiresAt |-> SessionTTL])
             @@ (2 :> [userId |-> 1, expiresAt |-> 2 * SessionTTL])
             @@ (3 :> [userId |-> 2, expiresAt |-> 2 * SessionTTL])
  /\ devices = <<>>
  /\ meta = {"initialized"}
  /\ cookie = 3
  /\ now = SessionTTL
  /\ nextUid = 4
  /\ nextSid = 4
  /\ nextDid = 1
  /\ last = Result("login", redirectInTry("/agent"), "signed-in")
  /\ inflight = <<>>
  /\ foreignKeys \in BOOLEAN
  /\ granted = <<>>

\* The actions that give, move and take away ownership, and the deletion of
\* agents, interleaved statement by statement.
NextOwnership ==
  \/ UNCHANGED <<inflight, foreignKeys, granted>> /\ \E t \in DOMAIN sessions : PresentToken(t)
  \/ createDeviceBegin
  \/ \E a \in DOMAIN users : createDeviceForAgentBegin(a, "agent1")
  \/ \E call \in DOMAIN inflight : deviceCreateFinish(call)
  \/ \E d \in DOMAIN devices, a \in DOMAIN users : transferDeviceOwnershipBegin(d, a)
  \/ \E call \in DOMAIN inflight : transferOwnershipStatement(call)
  \/ \E a \in DOMAIN users : deleteAgentBegin(a)
  \/ \E call \in DOMAIN inflight : deleteByIdStatement(call)
  \/ UNCHANGED <<inflight, foreignKeys, granted>> /\ \E d \in DOMAIN devices : removeDeviceOwnershipAction(d)
  \/ UNCHANGED <<inflight, foreignKeys, granted>> /\ importDevicesFromCSVAction(CsvTwoDevices, {})

SpecOwnership == InitOwnership /\ [][NextOwnership]_vars

\* The seeded admin, signed in, and one registered agent who is signed out,
\* on a store of either kind.
InitLogins ==
  /\ users = (1 :> [username |-> "admin",  passwordHash |-> Hash("password123"), role |-> "admin"])
          @@ (2 :> [username |-> "agent1", passwordHash |-> Hash("password123"), role |-> "agent"])
  /\ sessions = (1 :> [userId |-> 1, expiresAt |-> SessionTTL])
  /\ devices = <<>>
  /\ meta = {"initialized"}
  /\ cookie = 1
  /\ now = 0
  /\ nextUid = 3
  /\ nextSid = 2
  /\ nextDid = 1
  /\ last = Result("login", redirectInTry("/admin"), "signed-in")
  /\ inflight = <<>>
  /\ foreignKeys \in BOOLEAN
  /\ granted = <<>>

\* Logins, the admin's password override and the deletion of agents,
\* interleaved statement by statement.
NextLogins ==
  \/ UNCHANGED <<inflight, foreignKeys, granted>> /\ \E t \in DOMAIN sessions : PresentToken(t)
  \/ \E un \in {"admin", "agent1"}, pw \in {"password123", "secret1"} : loginBegin(un, pw)
  \/ \E call \in DOMAIN inflight : loginFinish(call)
  \/ \E a \in DOMAIN users, pw \in {"password123", "secret1"} : changeAgentPasswordBegin(a, pw, pw)
  \/ \E call \in DOMAIN inflight : changeAgentPasswordStatement(call)
  \/ \E a \in DOMAIN users : deleteAgentBegin(a)
  \/ \E call \in DOMAIN inflight : deleteByIdStatement(call)

SpecLogins == InitLogins /\ [][NextLogins]_vars

\* The device actions against a store that may reject a statement.
NextFaults ==
  \/ UNCHANGED <<inflight, foreignKeys, granted>> /\ \E t \in 0..(nextSid - 1) : PresentToken(t)
  \/ UNCHANGED <<inflight, foreignKeys, granted>> /\ createDeviceAction
  \/ UNCHANGED <<inflight, foreignKeys, granted>> /\ createDeviceActionRejected
  \/ UNCHANGED <<inflight, foreignKeys, granted>> /\ \E d \in 0..MaxDevices : approveDeviceAction(d)
  \/ UNCHANGED <<inflight, foreignKeys, granted>> /\ \E d \in 0..MaxDevices : approveDeviceActionRejected(d)
  \/ UNCHANGED <<inflight, foreignKeys, granted>> /\ \E d \in 0..MaxDevices : deleteDeviceAction(d)
  \/ UNCHANGED <<inflight, foreignKeys, granted>> /\ \E d \in 0..MaxDevices : deleteDeviceActionRejected(d)
  \/ UNCHANGED <<inflight, foreignKeys, granted>> /\ \E csv \in CsvInputs : \E failed \in InsertFailures(csv) :
        importDevicesFromCSVAction(csv, failed)

SpecFaults == InitDevices /\ [][NextFaults]_vars

\* The registrations interleaved: calls of registerAction and of
\* createAgentAction suspended at their awaits, while the admin deletes agents.
NextRegistrations ==
  \/ UNCHANGED <<foreignKeys, granted>> /\ \E f \in RegisterForms :
        registerBegin(f.username, f.password, f.confirmPassword, f.profile)
  \/ UNCHANGED <<foreignKeys, granted>> /\ \E f \in RegisterForms :
        createAgentBegin(f.username, f.password, f.confirmPassword, f.profile)
  \/ UNCHANGED <<foreignKeys, granted>> /\ \E call \in DOMAIN inflight : userCreateFinish(call)
  \/ UNCHANGED <<inflight, foreignKeys, granted>> /\ \E t \in 0..(nextSid - 1) : PresentToken(t)
  \/ UNCHANGED <<inflight, foreignKeys, granted>> /\ \E a \in 0..(nextUid - 1) : deleteAgentAction(a)

SpecRegistrations == InitAccounts /\ [][NextRegistrations]_vars

\* ================================================================ claims
\* The role of the caller as the specification defines it: the role of the
\* user of the existing, unexpired session the cookie names, else "none".
CallerRole ==
  IF /\ cookie \in DOMAIN sessions
     /\ sessions[cookie].expiresAt > now
     /\ sessions[cookie].userId \in DOMAIN users
  THEN users[sessions[cookie].userId].role
  ELSE "none"

CallerId == IF CallerRole = "none" THEN NULL ELSE sessions[cookie].userId

AdminOnlyOps ==
  {"approveDevice", "deleteDevice", "transferDeviceOwnership", "removeDeviceOwnership",
   "importDevicesFromCSV", "createDeviceForAgent", "createAgent", "deleteAgent",
   "changeAgentPassword"}

Errors ==
  {ErrUnauthorized, ErrAdminRequired, ErrInvalidLogin, ErrLoginFailed, ErrLoginUserRequired, ErrLoginPassRequired,
   ErrSelfDelete, ErrAgentNotFound, ErrDeviceNotFound, ErrNewAgentNotFound, ErrTargetNotAgent,
   ErrUserNotAgent, ErrTransferRequired, ErrDeviceIdRequired, ErrAgentIdRequired,
   ErrAgentFormRequired, ErrPasswordTooShort, ErrPasswordMismatch, ErrUsernameTooShort,
   ErrRegPassTooShort, ErrCompanyRequired, ErrEmailInvalid, ErrPhoneRequired, ErrIssuerRequired,
   ErrCurrentRequired, ErrNewTooShort, ErrNewMismatch, ErrSessionRequired, ErrUserNotFound,
   ErrCurrentWrong, ErrUsernameTaken, ErrRegisterFailed, ErrCreateAgentFailed, ErrCsvRequired, ErrCsvValidation, ErrCsvNoDevices,
   ErrCsvPartial, ErrCreateDeviceFailed, ErrApproveDeviceFailed, ErrDeleteDeviceFailed,
   ErrCreateForAgentFailed}

IsError(res) == res \in Errors

\* C1: a role-gated action called without a valid session, or with a session
\* of the wrong role, returns an error and leaves users, sessions and devices
\* unchanged: the nine admin-only actions for a caller who is not an admin,
\* createDevice for a caller who is not an agent.
C1_GateRejects ==
  [][ (\/ last'.op \in AdminOnlyOps /\ CallerRole # "admin"
       \/ last'.op = "createDevice" /\ CallerRole # "agent")
      => /\ IsError(last'.res)
         /\ users' = users
         /\ sessions' = sessions
         /\ devices' = devices ]_vars

\* an agent has called an admin-only device action on a pending device
C1_Witness ==
  /\ last.op = "approveDevice"
  /\ last.note = "wrong-role"
  /\ CallerRole = "agent"
  /\ \E d \in DOMAIN devices : devices[d].status = "pending"

\* C2: a successful deleteAgent on an existing user removes the user and all
\* of that user's sessions, and deletes no device: every device the user
\* owned is still there with owner null, every other device is as it was.
C2_DeleteCascades ==
  [][ last'.op = "deleteAgent" => \A a \in DOMAIN users :
        (deleteAgentAction(a) /\ last'.res = Success)
        => /\ a \notin DOMAIN users'
           /\ \A s \in DOMAIN sessions' : sessions'[s].userId # a
           /\ DOMAIN devices' = DOMAIN devices
           /\ \A d \in DOMAIN devices :
                devices'[d] = IF devices[d].agentId = a
                              THEN [devices[d] EXCEPT !.agentId = NULL]
                              ELSE devices[d] ]_vars

SessionOps == AdminOnlyOps \cup {"createDevice", "changePassword"}

C5_StatusOneWay ==
  [][ \A d \in DOMAIN devices \cap DOMAIN devices' :
        /\ devices[d].status = "active" => devices'[d].status = "active"
        /\ devices'[d].status # devices[d].status
           => /\ last'.op = "approveDevice"
              /\ devices[d].status = "pending"
              /\ devices'[d].status = "active" ]_vars

\* the owner of an active device has just been removed; the device is active
C5_Witness ==
  /\ last.op = "removeDeviceOwnership"
  /\ last.res = Success
  /\ last.note = "active"
  /\ \E d \in DOMAIN devices : devices[d].status = "active" /\ devices[d].agentId = NULL

\* C6: approveDevice called by an admin on an existing device succeeds; on a
\* pending device it makes that device active and changes nothing else, on an
\* already active device it changes no device at all.
C6_ApproveIdempotent ==
  [][ last'.op = "approveDevice" => \A d \in DOMAIN devices :
        (approveDeviceAction(d) /\ CallerRole = "admin")
        => /\ last'.res = Success
           /\ devices[d].status = "pending" => devices' = [devices EXCEPT ![d].status = "active"]
           /\ devices[d].status = "active" => devices' = devices ]_vars

\* an admin has just approved a device that was already active
C6_Witness ==
  /\ last.op = "approveDevice"
  /\ last.res = Success
  /\ last.note = "active"
  /\ CallerRole = "admin"
  /\ \E d \in DOMAIN devices : devices[d].status = "active"

\* C7: transferDeviceOwnership to a user id that has no row, or to a user
\* whose role is not agent, returns an error and leaves every device as it
\* was.  Stated by contraposition: a transfer step that returns no error, or
\* changes a device, is not a call with such a target.
C7_TransferRejectsNonAgent ==
  [][ ( /\ last'.op = "transferDeviceOwnership"
        /\ ~(IsError(last'.res) /\ devices' = devices) )
      => \A d \in 0..MaxDevices, a \in 0..(nextUid - 1) :
           (a \notin DOMAIN users \/ users[a].role # "agent")
           => ~transferDeviceOwnershipAction(d, a) ]_vars

\* an admin has just asked to transfer a device to a user who is not an agent
C7_Witness ==
  /\ last.op = "transferDeviceOwnership"
  /\ last.res = ErrTargetNotAgent
  /\ last.note = "not-agent"
  /\ CallerRole = "admin"
  /\ devices # <<>>

\* C8: called by an admin on an existing device, pending or active,
\* transferDeviceOwnership to an agent succeeds and removeDeviceOwnership
\* succeeds; a successful transfer changes only that device's owner, to the
\* new agent, and a successful removal changes only that device's owner, to
\* null.
C8_OwnershipOnlyOwner ==
  [][ /\ last'.op = "transferDeviceOwnership"
         => \A d \in DOMAIN devices, a \in DOMAIN users :
              /\ ( /\ CallerRole = "admin"
                   /\ users[a].role = "agent"
                   /\ transferDeviceOwnershipAction(d, a) ) => last'.res = Success
              /\ (last'.res = Success /\ transferDeviceOwnershipAction(d, a))
                 => devices' = [devices EXCEPT ![d].agentId = a]
      /\ last'.op = "removeDeviceOwnership"
         => \A d \in DOMAIN devices :
              /\ (CallerRole = "admin" /\ removeDeviceOwnershipAction(d)) => last'.res = Success
              /\ (last'.res = Success /\ removeDeviceOwnershipAction(d))
                 => devices' = [devices EXCEPT ![d].agentId = NULL] ]_vars

\* a pending device has just been transferred to an agent while another
\* device, of another owner, exists
C8_Witness ==
  /\ last.op = "transferDeviceOwnership"
  /\ last.res = Success
  /\ last.note = "pending"
  /\ \E d, e \in DOMAIN devices :
       /\ devices[d].status = "pending"
       /\ devices[d].agentId # NULL
       /\ devices[e].agentId # devices[d].agentId

\* C9: deleteAgent called by an admin with the id of the user of the admin's
\* own session returns an error and changes no user, session or device.
C9_NoSelfDelete ==
  [][ (last'.op = "deleteAgent" /\ CallerRole = "admin") => \A a \in DOMAIN users :
        (deleteAgentAction(a) /\ CallerRole = "admin" /\ a = CallerId)
        => /\ IsError(last'.res)
           /\ users' = users
           /\ sessions' = sessions
           /\ devices' = devices ]_vars

\* an admin has just asked to delete their own account, with devices in the store
C9_Witness ==
  /\ last.op = "deleteAgent"
  /\ last.res = ErrSelfDelete
  /\ last.note = "self"
  /\ CallerRole = "admin"
  /\ CallerId \in DOMAIN users
  /\ devices # <<>>

\* C10: a login that names no user, or names a user with another password,
\* creates no session and sets no cookie, and with both fields filled in it
\* returns the same message in the two cases.
C10_LoginNoEnumeration ==
  [][ last'.op = "login" => \A u \in Usernames, p \in Passwords :
        ( /\ loginAction(u, p)
          /\ \A x \in DOMAIN users :
               users[x].username = u => users[x].passwordHash # Hash(p) )
        => /\ IsError(last'.res)
           /\ (u # "" /\ p # "") => last'.res = ErrInvalidLogin
           /\ sessions' = sessions
           /\ cookie' = cookie
           /\ nextSid' = nextSid ]_vars

\* a login with the username of an existing user and a wrong password has
\* just been refused
C10_Witness ==
  /\ last.op = "login"
  /\ last.res = ErrInvalidLogin
  /\ last.note = "wrong-password"

\* C11: a login with the username of an existing user and that user's
\* password creates exactly one session, bound to that user and expiring one
\* session lifetime (30 days) later, sets the cookie to that session's id, and
\* ends in the redirect for the user's role.
C11_LoginCreatesSession ==
  [][ last'.op = "login"
      => \A u \in Usernames, p \in Passwords :
           \A x \in DOMAIN users :
             ( /\ users[x].username = u
               /\ users[x].passwordHash = Hash(p)
               /\ loginAction(u, p) )
             => /\ nextSid \notin DOMAIN sessions
                /\ DOMAIN sessions' = DOMAIN sessions \cup {nextSid}
                /\ \A s \in DOMAIN sessions : sessions'[s] = sessions[s]
                /\ sessions'[nextSid] = [userId |-> x, expiresAt |-> now + SessionTTL]
                /\ cookie' = nextSid
                /\ last'.res = IF users[x].role = "admin" THEN "redirect:/admin"
                                                          ELSE "redirect:/agent" ]_vars

\* C12: a user created by a successful registerAction or createAgentAction has
\* role agent and a password hash that verifies against the submitted
\* password and differs from it; the step creates no session.
C12_RegisteredUser ==
  [][ (last'.op \in {"register", "createAgent"} /\ last'.res = Success)
      => \A f \in RegisterForms :
           ( \/ registerAction(f.username, f.password, f.confirmPassword, f.profile)
             \/ createAgentAction(f.username, f.password, f.confirmPassword, f.profile) )
           => /\ DOMAIN users' = DOMAIN users \cup {nextUid}
              /\ nextUid \notin DOMAIN users
              /\ users'[nextUid].username = f.username
              /\ users'[nextUid].role = "agent"
              /\ verifyPassword(users'[nextUid].passwordHash, f.password)
              /\ users'[nextUid].passwordHash # f.password
              /\ sessions' = sessions
              /\ nextSid' = nextSid ]_vars

\* a visitor has just registered as agent1, and nobody is signed in as agent1
C12_Witness ==
  /\ last.op = "register"
  /\ last.res = Success
  /\ \E u \in DOMAIN users :
       /\ users[u].username = "agent1"
       /\ users[u].role = "agent"
       /\ users[u].passwordHash = Hash("secret1")
       /\ \A s \in DOMAIN sessions : sessions[s].userId # u

\* C13: registerAction creates a user exactly when the username has at least 3
\* characters, the password at least 6, confirmPassword equals password and
\* the username is free, whether or not the profile fields are filled in; a
\* rejected registration creates no user.
C13_RegisterExactlyWhenValid ==
  [][ last'.op = "register"
      => \A f \in RegisterForms :
           registerAction(f.username, f.password, f.confirmPassword, f.profile)
           => /\ last'.res = Success
                 <=> /\ Len(f.username) >= 3
                     /\ Len(f.password) >= 6
                     /\ f.confirmPassword = f.password
                     /\ \A x \in DOMAIN users : users[x].username # f.username
              /\ last'.res = Success => DOMAIN users' = DOMAIN users \cup {nextUid}
              /\ last'.res # Success => users' = users ]_vars

\* C14: under every interleaving of registerAction and createAgentAction calls
\* no two users share a username; a registration whose INSERT comes after
\* another one has taken the username returns an error and creates no user,
\* and a registration that succeeds adds one user with a username that was free.
C14_UniqueUsernames ==
  [][ /\ \A x, y \in DOMAIN users' : users'[x].username = users'[y].username => x = y
      /\ \A call \in DOMAIN inflight :
           userCreateFinish(call)
           => /\ (\E x \in DOMAIN users : users[x].username = inflight[call].username)
                 => IsError(last'.res) /\ users' = users
              /\ last'.res = Success
                 => /\ \A x \in DOMAIN users : users[x].username # inflight[call].username
                    /\ DOMAIN users' = DOMAIN users \cup {nextUid} ]_vars

\* two registrations of agent1 were in flight together: one has inserted its
\* user, the other's INSERT has just failed
C14_Witness ==
  /\ last.note = "unique-violation"
  /\ IsError(last.res)
  /\ Cardinality({x \in DOMAIN users : users[x].username = "agent1"}) = 1

\* C15: changePasswordAction creates and deletes no session; when the current
\* password given does not verify against the caller's stored hash it returns
\* an error and changes no user; when it succeeds it changes the caller's hash
\* and nothing else, and every session of the caller resolves as before.
C15_ChangePasswordFrame ==
  [][ last'.op = "changePassword"
      => \A o \in Passwords, f \in NewPasswordForms :
           changePasswordAction(o, f[1], f[2])
           => /\ sessions' = sessions
              /\ nextSid' = nextSid
              /\ CallerRole = "none" => IsError(last'.res) /\ users' = users
              /\ (CallerRole # "none" /\ users[CallerId].passwordHash # Hash(o))
                 => IsError(last'.res) /\ users' = users
              /\ last'.res = Success
                 => /\ users' = [users EXCEPT ![CallerId].passwordHash = Hash(f[1])]
                    /\ \A t \in DOMAIN sessions :
                         sessions[t].userId = CallerId
                         => sessionFindById(t)' = sessionFindById(t) ]_vars

\* a user with two valid sessions has just changed their own password, and a
\* user with another password exists
C15_Witness ==
  /\ last.op = "changePassword"
  /\ last.res = Success
  /\ CallerRole # "none"
  /\ Cardinality({t \in DOMAIN sessions :
                    sessions[t].userId = CallerId /\ sessions[t].expiresAt > now}) >= 2
  /\ \E u \in DOMAIN users : users[u].passwordHash # users[CallerId].passwordHash

\* C16: a createDeviceAction call by a logged-in agent adds exactly one device:
\* pending, owned by the caller, named by the caller's stored username, "_"
\* and a suffix of four characters; the id, username and password returned
\* are those of the stored row.  Every other device is left as it was.
C16_AgentCreatesOwnDevice ==
  [][ (last'.op = "createDevice" /\ CallerRole = "agent" /\ createDeviceAction)
      => /\ last'.res = Success
         /\ DOMAIN devices' = DOMAIN devices \cup {last'.out.id}
         /\ last'.out.id \notin DOMAIN devices
         /\ \A d \in DOMAIN devices : devices'[d] = devices[d]
         /\ devices'[last'.out.id].status = "pending"
         /\ devices'[last'.out.id].agentId = CallerId
         /\ \E suffix \in Suffixes :
              /\ Len(suffix) = 4
              /\ devices'[last'.out.id].username = users[CallerId].username \o "_" \o suffix
         /\ last'.out.username = devices'[last'.out.id].username
         /\ last'.out.password = devices'[last'.out.id].password ]_vars

\* an agent has just created a device while another agent exists and a device
\* of someone else is already stored
C16_Witness ==
  /\ last.op = "createDevice"
  /\ last.res = Success
  /\ CallerRole = "agent"
  /\ devices[last.out.id].agentId = CallerId
  /\ \E u \in DOMAIN users : u # CallerId /\ users[u].role = "agent"
  /\ \E d \in DOMAIN devices : devices[d].agentId # CallerId

\* C17: createDeviceForAgentAction creates a device only when agentId names an
\* existing user of role agent (otherwise it returns an error and creates
\* nothing); the device created is pending, owned by that agent, and named by
\* the owning agent's stored username, "_" and a suffix of four characters.
C17_DeviceForAgentNamedAfterOwner ==
  [][ (last'.op = "createDeviceForAgent" /\ CallerRole = "admin")
      => \A a \in 0..(nextUid - 1), n \in AgentNames :
           createDeviceForAgentAction(a, n)
           => /\ ~(a \in DOMAIN users /\ users[a].role = "agent")
                 => IsError(last'.res) /\ devices' = devices
              /\ devices' # devices
                 => /\ DOMAIN devices' = DOMAIN devices \cup {last'.out.id}
                    /\ \A d \in DOMAIN devices : devices'[d] = devices[d]
                    /\ devices'[last'.out.id].status = "pending"
                    /\ devices'[last'.out.id].agentId = a
                    /\ \E suffix \in Suffixes :
                         /\ Len(suffix) = 4
                         /\ devices'[last'.out.id].username
                              = users[a].username \o "_" \o suffix ]_vars

\* The text as submitted, read line by line without the csvData.trim() of the
\* action: the 1-based numbers of its non-blank lines, those of its non-blank
\* lines that are not a valid "username,password", and the trimmed fields of
\* its non-blank lines.
SubmittedText ==
  [csvData \in CsvInputs |->
     LET lines == Split(csvData, "\n")
         nonBlank == {i \in 1..Len(lines) : Trim(lines[i]) # <<>>}
     IN  [nonBlank  |-> nonBlank,
          offending |-> {i \in nonBlank : ~CsvLineValid(Trim(lines[i]))},
          fields    |-> {<<CsvFields(Trim(lines[i])).username,
                           CsvFields(Trim(lines[i])).password>> : i \in nonBlank}]]

\* the (username, password) pairs of the devices a step has added
AddedCredentials == {<<devices'[d].username, devices'[d].password>> :
                       d \in DOMAIN devices' \ DOMAIN devices}

\* C18: an import by the admin of a text whose non-blank lines are all valid,
\* every INSERT going through, succeeds and adds one device per non-blank
\* line, each with no owner, active, with the trimmed username and password of
\* its line; the count reported is the number of devices added; the devices
\* already stored are untouched.  "bob,pw1\n\n alice , pw2 \n" adds bob/pw1
\* and alice/pw2.
C18_ImportCreatesOnePerLine ==
  [][ (last'.op = "importDevicesFromCSV" /\ CallerRole = "admin")
      => \A csv \in CsvInputs :
           (/\ SubmittedText[csv].nonBlank # {}
            /\ SubmittedText[csv].offending = {}
            /\ importDevicesFromCSVAction(csv, {}))
           => /\ last'.res = Success
              /\ Cardinality(DOMAIN devices' \ DOMAIN devices)
                   = Cardinality(SubmittedText[csv].nonBlank)
              /\ last'.out.count = Cardinality(DOMAIN devices' \ DOMAIN devices)
              /\ \A d \in DOMAIN devices' \ DOMAIN devices :
                   devices'[d].agentId = NULL /\ devices'[d].status = "active"
              /\ AddedCredentials = SubmittedText[csv].fields
              /\ csv = CsvTwoDevices
                   => AddedCredentials = {<<"bob", "pw1">>, <<"alice", "pw2">>}
              /\ \A d \in DOMAIN devices : d \in DOMAIN devices' /\ devices'[d] = devices[d]
    ]_vars

\* the two-line text has just been imported in full
C18_Witness ==
  /\ last.op = "importDevicesFromCSV"
  /\ last.res = Success
  /\ last.note = ""
  /\ last.out.count = 2
  /\ \E d \in DOMAIN devices :
       devices[d] = [agentId |-> NULL, username |-> "alice", password |-> "pw2",
                     status |-> "active"]
  /\ \E d \in DOMAIN devices :
       devices[d] = [agentId |-> NULL, username |-> "bob", password |-> "pw1",
                     status |-> "active"]

\* C19: an import by the admin of a text with an invalid non-blank line adds
\* no device and returns an error that names exactly the offending lines, by
\* their 1-based line numbers in the submitted text.
C19_ImportNamesOffendingLines ==
  [][ (last'.op = "importDevicesFromCSV" /\ CallerRole = "admin")
      => \A csv \in CsvInputs :
           (/\ SubmittedText[csv].offending # {}
            /\ \E failed \in InsertFailures(csv) : importDevicesFromCSVAction(csv, failed))
           => /\ devices' = devices
              /\ IsError(last'.res)
              /\ last'.out.kind = "import"
              /\ last'.out.lines = SubmittedText[csv].offending ]_vars

\* C20: an import by the admin of a text whose non-blank lines are all valid,
\* some INSERT being rejected by the store, returns a result that is not the
\* validation failure, and the count it reports is the number of devices
\* added.
C20_ImportReportsStoredDevices ==
  [][ (last'.op = "importDevicesFromCSV" /\ CallerRole = "admin")
      => \A csv \in CsvInputs :
           \A failed \in InsertFailures(csv) :
             (/\ failed # {}
              /\ SubmittedText[csv].offending = {}
              /\ importDevicesFromCSVAction(csv, failed))
             => /\ last'.res # ErrCsvValidation
                /\ last'.out.count = Cardinality(DOMAIN devices' \ DOMAIN devices) ]_vars

\* C21: getCurrentUserDevices called by a logged-in agent returns exactly the
\* devices whose owner is the caller at that moment, so none owned by another
\* agent and none without owner; called without a valid session or by another
\* role it returns the empty array; getPendingDevices and getAllDevices return
\* the empty array to every caller who is not an admin.  No helper returns an
\* error or changes a device.
C21_AgentSeesOwnDevices ==
  [][ last'.op \in {"getCurrentUserDevices", "getPendingDevices", "getAllDevices"}
      => /\ ~IsError(last'.res)
         /\ devices' = devices
         /\ last'.out.kind = "rows"
         /\ (last'.op = "getCurrentUserDevices" /\ CallerRole = "agent")
            => last'.out.rows = {d \in DOMAIN devices : devices[d].agentId = CallerId}
         /\ (last'.op = "getCurrentUserDevices" /\ CallerRole # "agent")
            => last'.out.rows = {}
         /\ (last'.op # "getCurrentUserDevices" /\ CallerRole # "admin")
            => last'.out.rows = {} ]_vars

\* an agent has just listed their devices and got some, while the store also
\* holds a device with no owner or of someone else
C21_Witness ==
  /\ last.op = "getCurrentUserDevices"
  /\ CallerRole = "agent"
  /\ last.out.rows # {}
  /\ \E d \in DOMAIN devices : devices[d].agentId # CallerId

\* C22: a run of initializeDatabase that finds no marker and no user leaves
\* exactly one user, the admin "admin" whose password is "password123"; every
\* other run (marker present, or users present) leaves the users table as it
\* is.  No run touches a session or a device.
C22_SeedOnce ==
  [][ last'.op = "initializeDatabase"
      => /\ IF "initialized" \notin meta /\ DOMAIN users = {}
            THEN /\ Cardinality(DOMAIN users') = 1
                 /\ \A u \in DOMAIN users' :
                      /\ users'[u].role = "admin"
                      /\ users'[u].username = "admin"
                      /\ verifyPassword(users'[u].passwordHash, "password123")
            ELSE users' = users
         /\ sessions' = sessions
         /\ devices' = devices ]_vars

\* C23: logoutAction removes the session row the caller's cookie names and no
\* other, and clears the cookie: the token presented resolves to no session
\* afterwards, every other session (of the same user too) is as before, and a
\* call with no cookie or with a token that names no row changes no session.
\* The call redirects, it returns no error, and touches no user or device.
C23_LogoutDestroysOneSession ==
  [][ (last'.op = "logout" /\ logoutAction)
      => /\ cookie' = NoCookie
         /\ sessionFindById(cookie)' = NoSession
         /\ cookie \notin DOMAIN sessions'
         /\ \A t \in DOMAIN sessions :
              t # cookie => t \in DOMAIN sessions' /\ sessions'[t] = sessions[t]
         /\ DOMAIN sessions' \subseteq DOMAIN sessions
         /\ (cookie = NoCookie \/ cookie \notin DOMAIN sessions) => sessions' = sessions
         /\ ~IsError(last'.res)
         /\ users' = users /\ devices' = devices ]_vars

\* a user has just logged out of one of two sessions: the token issued last
\* names no row any more, the other session of the same user is still valid
C23_Witness ==
  /\ last.op = "logout"
  /\ cookie = NoCookie
  /\ nextSid = 3
  /\ 2 \notin DOMAIN sessions
  /\ 1 \in DOMAIN sessions
  /\ sessionFindById(1) # NoSession
  /\ sessionFindById(1).userId = 1

\* C24: whenever a store call issued by a server action is rejected, the
\* action returns an error, never success, and the rejection does not stay
\* unhandled (createDevice, approveDevice, deleteDevice and the INSERTs of the
\* CSV import).
C24_StoreFailureIsAnError ==
  [][ /\ last'.out.kind = "fault"
         => IsError(last'.res) /\ ~last'.out.unhandled
      /\ (last'.op = "importDevicesFromCSV" /\ last'.note = "insert-failed")
         => IsError(last'.res) ]_vars

\* C25: the sweep of expired sessions removes the session rows with
\* expiresAt <= now and leaves every other row as it is; every token resolves
\* after the sweep to what it resolved to before, so the caller's session and
\* role are the same; a second sweep at the same instant would remove nothing;
\* users, devices and the cookie are untouched.
C25_SweepRemovesOnlyExpired ==
  [][ (last'.op = "deleteExpired" /\ deleteExpired)
      => /\ DOMAIN sessions' = {s \in DOMAIN sessions : sessions[s].expiresAt > now}
         /\ \A s \in DOMAIN sessions' : sessions'[s] = sessions[s]
         /\ \A t \in 0..(nextSid - 1) : sessionFindById(t)' = sessionFindById(t)
         /\ getSession' = getSession
         /\ \A s \in DOMAIN sessions' : sessions'[s].expiresAt > now'
         /\ users' = users /\ devices' = devices /\ cookie' = cookie ]_vars

\* the sweep has just run at time 1: the session that expired at 1 is gone,
\* the session granted at 1 is still there and resolves
C25_Witness ==
  /\ last.op = "deleteExpired"
  /\ now = 1
  /\ 1 \notin DOMAIN sessions
  /\ 2 \in DOMAIN sessions
  /\ sessionFindById(2) # NoSession

\* C26: transferDeviceOwnershipAction and removeDeviceOwnershipAction called
\* by the admin with an id that names no device return the device-not-found
\* error and leave the devices as they are.
C26_MissingDeviceIsNotFound ==
  [][ (last'.op \in {"transferDeviceOwnership", "removeDeviceOwnership"} /\ CallerRole = "admin")
      => \A d \in 1..MaxDevices :
           (/\ d \notin DOMAIN devices
            /\ \/ removeDeviceOwnershipAction(d)
               \/ \E a \in 1..(nextUid - 1) : transferDeviceOwnershipAction(d, a))
           => /\ last'.res = ErrDeviceNotFound
              /\ devices' = devices ]_vars

\* C27: changeAgentPasswordAction called by the admin for a target that is not
\* an existing user of role agent (no such user, or an admin, the caller
\* included) returns an error and leaves every user and every session as it
\* is.
C27_OverrideOnlyForAgents ==
  [][ (last'.op = "changeAgentPassword" /\ CallerRole = "admin")
      => \A a \in 0..(nextUid - 1), f \in NewPasswordForms :
           (/\ ~(a \in DOMAIN users /\ users[a].role = "agent")
            /\ changeAgentPasswordAction(a, f[1], f[2]))
           => /\ IsError(last'.res)
              /\ users' = users
              /\ sessions' = sessions ]_vars

\* the users of role admin
Admins == {u \in DOMAIN users : users[u].role = "admin"}

\* C28: on a seeded database every step leaves exactly one admin, the same
\* one: no step adds an admin, removes the admin, or changes the role of a
\* user it keeps.
C28_ExactlyOneAdmin ==
  [][ /\ Admins' = Admins
      /\ Cardinality(Admins') = 1
      /\ \A u \in DOMAIN users \cap DOMAIN users' : users'[u].role = users[u].role ]_vars

\* the admin has just deleted a registered agent and is the only user left
C28_Witness ==
  /\ last.op = "deleteAgent"
  /\ last.res = Success
  /\ last.note = "deleted"
  /\ nextUid >= 3
  /\ DOMAIN users = Admins
  /\ Cardinality(Admins) = 1

InFlightFor(u) ==
  \E c \in DOMAIN inflight :
    \/ inflight[c].op = "login" /\ inflight[c].userId = u
    \/ inflight[c].op \in {"changeAgentPassword", "deleteAgent"} /\ inflight[c].agentId = u

\* C30: once a login of an agent and a password override for that agent have
\* both run to their end, the agent has no valid session that was granted by
\* verifying a password other than the current one; and once a deletion of
\* a user has run to its end, no token resolves to a session of that user,
\* whatever login was in flight.
C30_NoSessionSurvivesOverrideOrDelete ==
  /\ \A s \in DOMAIN sessions \cap DOMAIN granted :
       LET u == sessions[s].userId IN
       (/\ u \in DOMAIN users
        /\ users[u].role = "agent"
        /\ sessionFindById(s) # NoSession
        /\ ~InFlightFor(u))
       => granted[s] = users[u].passwordHash
  /\ \A u \in (1..(nextUid - 1)) \ DOMAIN users :
       ~InFlightFor(u) => \A t \in 0..(nextSid - 1) : sessionFindById(t).userId # u
====
